---------------------------- MODULE Spec2Model ----------------------------
(***************************************************************************)
(* yt-content-analyzer: the run orchestrator (run.py) and its checkpoint   *)
(* ledger (state/checkpoint.py).                                           *)
(*                                                                         *)
(* The specifications share the module's variables:                        *)
(*   SpecStore  CheckpointStore alone, one action per file-system effect   *)
(*              of init_if_missing / load / save / is_done / mark, with a  *)
(*              process kill possible between any two effects.             *)
(*   Spec       run_all: the per-unit loop, the transcript and comments    *)
(*              sub-pipelines, the enrichment stages, the failure policy,  *)
(*              process kills and resumes; a ledger call is one step.      *)
(*   SpecAnyConfig  Spec with the transcripts disabled as well.            *)
(*   SpecSetup  run_all from its call to the unit loop: the resume         *)
(*              identifier check, the run directory, preflight, the        *)
(*              manifest snapshot, ledger initialisation and               *)
(*              _build_video_list with its resolvers; also the resume      *)
(*              checks of the command line.  A unit is one step.           *)
(*   SpecDedup  the tail of _collect_and_process_comments: the per-mode    *)
(*              comments gathered into all_normalized, the loop that       *)
(*              deduplicates by COMMENT_ID, the merged file.               *)
(*   SpecChunk  chunk_transcripts, one step per test and per window of     *)
(*              its while loop.                                            *)
(*   SpecNormalize  normalize_transcripts, one step per raw entry.         *)
(*   SpecChunkFair  SpecChunk with the loop's steps taken when possible.   *)
(*   SpecManifest  the manifest snapshot of run_all: the settings written  *)
(*              to manifest.json with the secret masked.                   *)
(*   SpecRetry, SpecRetryFair  the retry loops of the yt-dlp collectors.   *)
(*   SpecWriters  two callers of CheckpointStore.mark on one ledger file,  *)
(*              one step per read, update and rename.                      *)
(*   SpecEnrichTopics  the embeddings and topics stages of _enrich_video:  *)
(*              compute_embeddings and the vectors handed to the topic     *)
(*              functions.                                                 *)
(***************************************************************************)
EXTENDS Naturals, Sequences, FiniteSets, TLC

(***************************************************************************)
(* Bounds of the model.                                                    *)
(***************************************************************************)
\* process kills the store specification explores (each may strand a temp file)
MaxKills == 2
\* calls of run_all on one run directory: a new run, then resumes
MaxRuns == 2
\* outcomes other than the nominal one in one behaviour: an exception of a
\* collaborator, an empty result, a failed ledger write, a kill
MaxFaults == 2
\* length of a resume identifier
MaxIdLen == 2
\* entries one search returns (cfg.MAX_VIDEOS_PER_TERM)
MaxPerTerm == 2
\* entries one channel listing returns (MAX_SUB_VIDEOS)
MaxPerChannel == 1
\* the largest cfg.MAX_TOTAL_VIDEOS explored
MaxTotalVideos == 2
\* comments one sort mode yields
MaxComments == 2
\* segments of one transcript
MaxSegments == 2
\* the latest start, the longest duration and the widest window, in seconds
MaxSeconds == 2
\* characters in the text of one raw transcript entry
MaxChars == 2
\* the largest MAX_RETRY_SCRAPE and EMBEDDINGS_MAX_RETRIES explored
MaxRetries == 2
\* comments of one unit and transcript chunks of one unit handed to enrichment
MaxItems == 2

(***************************************************************************)
(* The ledger as data: {"UNITS": {unit_key: {stage: status}}}.             *)
(***************************************************************************)
NoUnits == [u \in {} |-> [s \in {} |-> ""]]
NoStages == [s \in {} |-> ""]

\* dict.get(...) on a missing key: Python's None
None == "None"

\* data.get("UNITS", {}).get(unit_key, {}).get(stage)      checkpoint.py:57
Get(units, unit_key, stage) ==
    IF unit_key \in DOMAIN units
    THEN IF stage \in DOMAIN units[unit_key] THEN units[unit_key][stage] ELSE None
    ELSE None

\* status == "DONE"                                       checkpoint.py:58
\* is_done reading any recorded status as completion
StatusIsRecorded(status) == status \in {"DONE", "FAILED"}
\* is_done reading everything but FAILED as completion
StatusIsNotFailed(status) == status # "FAILED"
\* is_done answering False whatever is recorded
StatusIsNeverDone(status) == FALSE
StatusIsDone(status) == status = "DONE"

\* the unit's sub-map replaced by a new one that holds the stage alone
SetStatus_new_submap(units, unit_key, stage, status) ==
    [u \in (DOMAIN units) \cup {unit_key} |->
        IF u = unit_key THEN [s \in {stage} |-> status] ELSE units[u]]

\* units.setdefault(unit_key, {}); units[unit_key][stage] = status
\*                                                        checkpoint.py:62-64
SetStatus(units, unit_key, stage, status) ==
    [u \in (DOMAIN units) \cup {unit_key} |->
        LET old == IF u \in DOMAIN units THEN units[u] ELSE NoStages
        IN  IF u = unit_key
            THEN [s \in (DOMAIN old) \cup {stage} |->
                    IF s = stage THEN status ELSE old[s]]
            ELSE old]

(***************************************************************************)
(* Files of the state/ directory.  A file is absent, holds a ledger that   *)
(* json.loads accepts, or holds bytes it rejects.  The empty file that an  *)
(* open-for-writing leaves before the first flush is rejected too.         *)
(***************************************************************************)
Absent == [kind |-> "absent", units |-> NoUnits, bytes |-> ""]
LedgerFile(units) == [kind |-> "ledger", units |-> units, bytes |-> ""]
Unparsable(bytes) == [kind |-> "garbage", units |-> NoUnits, bytes |-> bytes]
\* what open(path, "w") leaves until the data is flushed
Truncated == Unparsable("")
\* byte strings an outside writer or a damaged disk can leave
ForeignBytes == {"{{{{invalid json"}

IsLedger(file) == file.kind = "ledger"
Exists(file) == file.kind # "absent"

(***************************************************************************)
(* State.                                                                  *)
(***************************************************************************)
VARIABLES
    \* ---- the state/ directory (persistent) ----
    ckptFile,       \* state/checkpoint.json
    corruptFile,    \* state/checkpoint.json.corrupt
    tmpFile,        \* the temp file of the save in progress (Absent when none)
    strayTmp,       \* temp files left behind by killed saves
    \* ---- a client of CheckpointStore (volatile) ----
    spc,            \* position inside the store operation in progress
    sop,            \* the operation in progress, or the last one finished
    sdata,          \* the local `data` of load / mark / save
    sret,           \* how the last operation ended
    sbefore,        \* checkpoint.json as it was when sop was called
    \* ---- the run directory and the run_all process ----
    fs,             \* the run directory's output and failure files (persistent)
    pr,             \* run_all's position and locals (volatile)
    env,            \* invocations made so far, the configuration, the fault budget
    \* ---- run_all up to the unit loop, and the directories it works in ----
    sd,
    \* ---- the comment lists of one execution of the comments sub-pipeline ----
    cm,
    \* ---- one function looked at on its own (parse/, the manifest snapshot,
    \* ---- a collector's retry loop, ...): its arguments and locals ----
    tx

storeVars == <<ckptFile, corruptFile, tmpFile, strayTmp, spc, sop, sdata, sret, sbefore>>
runVars == <<fs, pr, env>>
otherVars == <<sd, cm, tx>>
vars == <<storeVars, runVars, otherVars>>

(***************************************************************************)
(* The inputs of a run.                                                    *)
(***************************************************************************)
\* the unit list _build_video_list returns, in order
VideoList == <<"v1", "v2">>
Units == {VideoList[i] : i \in 1..Len(VideoList)}
\* cfg.COLLECT_SORT_MODES                                        config.py:54
COLLECT_SORT_MODES == <<"top", "newest">>
SortModeSet == {COLLECT_SORT_MODES[i] : i \in 1..Len(COLLECT_SORT_MODES)}
\* the enrichment stages in the order of _enrich_video        run.py:425-565
EnrichStages ==
    <<"enrich_embeddings", "enrich_topics", "enrich_sentiment",
      "enrich_triples", "enrich_urls", "enrich_summary">>
EnrichStageSet == {EnrichStages[i] : i \in 1..Len(EnrichStages)}
\* the stage names failure records and FAILED marks are written under
FailStages == {"transcript", "comments"} \cup EnrichStageSet
\* the configurations explored
Configs ==
    [ON_VIDEO_FAILURE : {"skip", "abort"},
     TRANSCRIPTS_ENABLE : {TRUE},
     EMBEDDINGS_ENABLE : {TRUE},
     URL_EXTRACTION_ENABLE : {TRUE},
     SUMMARY_ENABLE : {TRUE}]
\* the same with the transcripts switched off
ConfigsTranscriptsOff ==
    {[c EXCEPT !.TRANSCRIPTS_ENABLE = FALSE] : c \in Configs}

NoCall == [op |-> "", unit |-> "", stage |-> "", emb |-> FALSE]
Call(op, unit, stage) == [op |-> op, unit |-> unit, stage |-> stage, emb |-> FALSE]

\* the locals of a run_all that is not running.  `call` is the collaborator
\* the last step called; `enriched` the units _enrich_video was entered for
\* and `ran` the enrichment stages called for the current unit, both in this
\* invocation; `out` is how the last invocation ended
Idle(out) ==
    [pc |-> "idle", resumed |-> FALSE, vi |-> 0, sub |-> "", mi |-> 0, ei |-> 0,
     raw |-> FALSE, segs |-> FALSE, chunks |-> FALSE, allNorm |-> FALSE,
     rawc |-> FALSE, emb |-> FALSE, recs |-> FALSE, exc |-> "",
     failures |-> <<>>, processed |-> 0, call |-> NoCall, out |-> out,
     enriched |-> {}, ran |-> {}]

EmptyFs ==
    [seg |-> [u \in Units |-> 0],
     chunk |-> [u \in Units |-> 0],
     mode |-> [u \in Units |-> [m \in SortModeSet |-> 0]],
     agg |-> [u \in Units |-> 0],
     enrich |-> [u \in Units |-> [e \in EnrichStageSet |-> 0]],
     fail |-> [u \in Units |-> [s \in FailStages |-> 0]]]

(***************************************************************************)
(* The inputs of run_all before the unit loop: the resume identifier, the  *)
(* input mode, the resolvers' results.                                     *)
(***************************************************************************)
\* resume_run_id, as a string over the characters run.py:165 tells apart
IdChars == {"r", ".", "/", "\\"}
\* base_dir / "." is the base directory itself: resuming it is not explored
RunIds == UNION {[1..n -> IdChars] : n \in 1..MaxIdLen} \ {<<".">>}
\* resume_run_id=None (or ""): `if resume_run_id:` is false      run.py:163
NoResume == << >>
\* _new_run_id()                                                 run.py:171
NewRunId == <<"r">>
\* the directories base_dir / <id> that can come to exist
DirIds == {NewRunId}

\* re.search(r"[/\\]|^\.\.", resume_run_id) or ".." in resume_run_id
\*                                                               run.py:165
HasSeparator(id) == \E i \in 1..Len(id) : id[i] \in {"/", "\\"}
StartsWithDotDot(id) == Len(id) >= 2 /\ id[1] = "." /\ id[2] = "."
ContainsDotDot(id) == \E i \in 1..(Len(id) - 1) : id[i] = "." /\ id[i + 1] = "."
\* the check without its ".." part
InvalidRunId_separators_only(id) == HasSeparator(id)
InvalidRunId(id) == HasSeparator(id) \/ StartsWithDotDot(id) \/ ContainsDotDot(id)

\* cfg.SEARCH_TERMS and the CHANNEL of each entry of cfg.YT_SUBSCRIPTIONS
SEARCH_TERMS == <<"t1", "t2">>
YT_SUBSCRIPTIONS == <<"c1", "c2">>
\* extract_video_id(cfg.VIDEO_URL)                               run.py:63
VIDEO_URL_ID == "v1"
\* one entry of a video list: {"VIDEO_ID": ..., "SEARCH_TERM" / channel: ...}
Entry(v, from) == [VIDEO_ID |-> v, FROM |-> from]
\* what one resolver call can return for the term or channel `from`
ResolverResults(from, max_videos) ==
    UNION {[1..n -> {Entry(v, from) : v \in Units}] : n \in 0..max_videos}
\* the configurations of the input mode explored (MAX_TOTAL_VIDEOS >= 1)
\* (the maximum is read in search mode only)
SetupConfigs ==
    {c \in [mode : {"url", "search", "channels"},
            ON_VIDEO_FAILURE : {"skip", "abort"},
            MAX_TOTAL_VIDEOS : 1..MaxTotalVideos] :
        c.mode # "search" => c.MAX_TOTAL_VIDEOS = MaxTotalVideos}

\* a directory base_dir / <id> and what run_all keeps in it
\* (`disc` is the content of discovery/discovered_videos.jsonl, empty while
\* there is no such file; `units` the units some stage was run for)
NoDir ==
    [exists |-> FALSE, report |-> FALSE, manifest |-> FALSE, ledger |-> FALSE,
     disc |-> << >>, units |-> {}]
\* the locals of a run_all (or command) that is not running.  `found` is what
\* the run directory held when the call was made; `preflights`, `resolved`
\* and `effects` count the preflight runs, resolver calls and file-system
\* effects of the invocation; `wrote` names the files it wrote; `raised` the
\* terms or channels whose resolver raised in the running _build_video_list
SetupIdle(out) ==
    [pc |-> "idle", via |-> "", resume |-> NoResume, out |-> out,
     out_dir |-> NoResume, found |-> [dir |-> FALSE, manifest |-> FALSE],
     pre |-> "none", preflights |-> 0, resolved |-> 0, effects |-> 0,
     ti |-> 0, acc |-> << >>, video_list |-> << >>, vi |-> 0,
     processed |-> << >>, wrote |-> {}, raised |-> {}]
SetupStart(c) ==
    [p |-> SetupIdle(""), dirs |-> [d \in DirIds |-> NoDir], runs |-> 0,
     faults |-> 0, cfg |-> c]

RunIdle ==
    /\ fs = EmptyFs
    /\ pr = Idle("")
    /\ env \in [runs : {0}, faults : {0}, cfg : Configs]
\* the variables of the other specifications, where they are not in use
NotInUse == << >>
OthersIdle ==
    /\ sd = NotInUse
    /\ cm = NotInUse
    /\ tx = NotInUse

(***************************************************************************)
(* CheckpointStore, one action per file-system effect.                     *)
(***************************************************************************)
StoreUnits == {"v1", "v2"}
StoreStages == {"transcript_chunk", "comments"}
StoreStatuses == {"DONE", "FAILED"}

NoOp == [name |-> "none", unit |-> "", stage |-> "", status |-> ""]
StoreOps ==
    {[name |-> n, unit |-> "", stage |-> "", status |-> ""] :
        n \in {"init_if_missing", "load"}}
    \cup {[name |-> "is_done", unit |-> u, stage |-> s, status |-> ""] :
            u \in StoreUnits, s \in StoreStages}
    \cup {[name |-> "mark", unit |-> u, stage |-> s, status |-> st] :
            u \in StoreUnits, s \in StoreStages, st \in StoreStatuses}

NoRet == [kind |-> "none", exc |-> "", units |-> NoUnits, done |-> FALSE]
Returned(units, done) == [kind |-> "return", exc |-> "", units |-> units, done |-> done]
Raised(exc) == [kind |-> "raise", exc |-> exc, units |-> NoUnits, done |-> FALSE]

StoreInit ==
    /\ RunIdle
    /\ OthersIdle
    /\ env.cfg.ON_VIDEO_FAILURE = "skip"
    /\ ckptFile = Absent
    /\ corruptFile = Absent
    /\ tmpFile = Absent
    /\ strayTmp = 0
    /\ spc = "idle"
    /\ sop = NoOp
    /\ sdata = NoUnits
    /\ sret = NoRet
    /\ sbefore = Absent

\* what the caller of load() does with the data it returned
\*   load: return it; is_done: checkpoint.py:57-58; mark: checkpoint.py:62-65
Loaded(op, units) ==
    CASE op.name = "load" ->
            /\ spc' = "idle"
            /\ sdata' = units
            /\ sret' = Returned(units, FALSE)
      [] op.name = "is_done" ->
            /\ spc' = "idle"
            /\ sdata' = units
            /\ sret' = Returned(units, StatusIsDone(Get(units, op.unit, op.stage)))
      [] op.name = "mark" ->
            /\ spc' = "save_mkstemp"
            /\ sdata' = SetStatus(units, op.unit, op.stage, op.status)
            /\ sret' = NoRet

\* init_if_missing without the exists() test: the file is always rewritten
init_if_missing_always_write ==
    /\ UNCHANGED <<runVars, otherVars>>
    /\ spc = "idle"
    /\ sop' = [NoOp EXCEPT !.name = "init_if_missing"]
    /\ sbefore' = ckptFile
    /\ sdata' = NoUnits
    /\ spc' = "init_write"
    /\ sret' = NoRet
    /\ ckptFile' = Truncated
    /\ UNCHANGED <<corruptFile, tmpFile, strayTmp>>

\* init_if_missing: mkdir, exists(), and write_text's open   checkpoint.py:18-21
init_if_missing ==
    /\ UNCHANGED <<runVars, otherVars>>
    /\ spc = "idle"
    /\ sop' = [NoOp EXCEPT !.name = "init_if_missing"]
    /\ sbefore' = ckptFile
    /\ sdata' = NoUnits
    /\ IF Exists(ckptFile)
       THEN /\ spc' = "idle"
            /\ sret' = Returned(NoUnits, FALSE)
            /\ UNCHANGED ckptFile
       ELSE /\ spc' = "init_write"
            /\ sret' = NoRet
            /\ ckptFile' = Truncated
    /\ UNCHANGED <<corruptFile, tmpFile, strayTmp>>

\* write_text's write and close                              checkpoint.py:21
init_write ==
    /\ UNCHANGED <<runVars, otherVars>>
    /\ spc = "init_write"
    /\ ckptFile' = LedgerFile(NoUnits)
    /\ spc' = "idle"
    /\ sret' = Returned(NoUnits, FALSE)
    /\ UNCHANGED <<corruptFile, tmpFile, strayTmp, sop, sdata, sbefore>>

\* read_text and json.loads, as called by load, is_done and mark
\*                                                        checkpoint.py:24-27
load(op) ==
    /\ UNCHANGED <<runVars, otherVars>>
    /\ spc = "idle"
    /\ sop' = op
    /\ sbefore' = ckptFile
    /\ CASE ckptFile.kind = "ledger" -> Loaded(op, ckptFile.units)
         [] ckptFile.kind = "garbage" ->
                /\ spc' = "load_copy"
                /\ sdata' = NoUnits
                /\ sret' = NoRet
         [] ckptFile.kind = "absent" ->
                \* FileNotFoundError is not among the caught exceptions
                /\ spc' = "idle"
                /\ sdata' = NoUnits
                /\ sret' = Raised("FileNotFoundError")
    /\ UNCHANGED <<ckptFile, corruptFile, tmpFile, strayTmp>>

\* the backup taken from the file after it was reinitialised
load_copy_after_reinit ==
    /\ UNCHANGED <<runVars, otherVars>>
    /\ spc = "load_copy"
    /\ corruptFile' = LedgerFile(NoUnits)
    /\ spc' = "load_open"
    /\ UNCHANGED <<ckptFile, tmpFile, strayTmp, sop, sdata, sret, sbefore>>

\* shutil.copy2(self.path, backup)                         checkpoint.py:28-29
load_copy ==
    /\ UNCHANGED <<runVars, otherVars>>
    /\ spc = "load_copy"
    /\ corruptFile' = ckptFile
    /\ spc' = "load_open"
    /\ UNCHANGED <<ckptFile, tmpFile, strayTmp, sop, sdata, sret, sbefore>>

\* write_text's open of the canonical path                    checkpoint.py:34
load_open ==
    /\ UNCHANGED <<runVars, otherVars>>
    /\ spc = "load_open"
    /\ ckptFile' = Truncated
    /\ spc' = "load_write"
    /\ UNCHANGED <<corruptFile, tmpFile, strayTmp, sop, sdata, sret, sbefore>>

\* write_text's write and close, and return data           checkpoint.py:33-35
load_write ==
    /\ UNCHANGED <<runVars, otherVars>>
    /\ spc = "load_write"
    /\ ckptFile' = LedgerFile(NoUnits)
    /\ Loaded(sop, NoUnits)
    /\ UNCHANGED <<corruptFile, tmpFile, strayTmp, sop, sbefore>>

\* the except BaseException clause of save: unlink and re-raise
\*                                                        checkpoint.py:48-53
save_failed ==
    /\ tmpFile' = Absent
    /\ spc' = "idle"
    /\ sret' = Raised("OSError")
    /\ UNCHANGED <<ckptFile, corruptFile, strayTmp, sop, sdata, sbefore>>

\* tempfile.mkstemp(dir=...)                                  checkpoint.py:42
save_mkstemp ==
    /\ UNCHANGED <<runVars, otherVars>>
    /\ spc = "save_mkstemp"
    /\ \E ok \in BOOLEAN :
        IF ok
        THEN /\ tmpFile' = Truncated
             /\ spc' = "save_write"
             /\ UNCHANGED <<ckptFile, corruptFile, strayTmp, sop, sdata, sret, sbefore>>
        ELSE save_failed

\* os.write(fd, content); os.close(fd)                     checkpoint.py:44-46
save_write ==
    /\ UNCHANGED <<runVars, otherVars>>
    /\ spc = "save_write"
    /\ \E ok \in BOOLEAN :
        IF ok
        THEN /\ tmpFile' = LedgerFile(sdata)
             /\ spc' = "save_replace"
             /\ UNCHANGED <<ckptFile, corruptFile, strayTmp, sop, sdata, sret, sbefore>>
        ELSE save_failed

\* tmp_path.replace(self.path)                                checkpoint.py:47
save_replace ==
    /\ UNCHANGED <<runVars, otherVars>>
    /\ spc = "save_replace"
    /\ \E ok \in BOOLEAN :
        IF ok
        THEN /\ ckptFile' = tmpFile
             /\ tmpFile' = Absent
             /\ spc' = "idle"
             /\ sret' = Returned(sdata, FALSE)
             /\ UNCHANGED <<corruptFile, strayTmp, sop, sdata, sbefore>>
        ELSE save_failed

\* the process is killed inside a store operation: the volatile state is
\* lost, the directory stays as it is
StoreKill ==
    /\ UNCHANGED <<runVars, otherVars>>
    /\ spc # "idle"
    /\ Exists(tmpFile) => strayTmp < MaxKills
    /\ strayTmp' = IF Exists(tmpFile) THEN strayTmp + 1 ELSE strayTmp
    /\ tmpFile' = Absent
    /\ spc' = "idle"
    /\ sret' = [NoRet EXCEPT !.kind = "killed"]
    /\ sdata' = NoUnits
    /\ UNCHANGED <<ckptFile, corruptFile, sop, sbefore>>

\* something other than the program damages the ledger file
Corrupt ==
    /\ UNCHANGED <<runVars, otherVars>>
    /\ spc = "idle"
    /\ Exists(ckptFile)
    /\ \E b \in ForeignBytes : ckptFile' = Unparsable(b)
    /\ sop' = [NoOp EXCEPT !.name = "corrupt"]
    /\ sret' = NoRet
    /\ sbefore' = ckptFile
    /\ UNCHANGED <<corruptFile, tmpFile, strayTmp, spc, sdata>>

StoreNext ==
    \/ init_if_missing
    \/ init_write
    \/ \E op \in StoreOps \ {[NoOp EXCEPT !.name = "init_if_missing"]} : load(op)
    \/ load_copy
    \/ load_open
    \/ load_write
    \/ save_mkstemp
    \/ save_write
    \/ save_replace
    \/ StoreKill
    \/ Corrupt



SpecStore == StoreInit /\ [][StoreNext]_vars

(***************************************************************************)
(* CheckpointStore as run_all sees it: a call is one step.                 *)
(***************************************************************************)
\* load(): the data returned                               checkpoint.py:23-35
LoadUnits(file) == IF IsLedger(file) THEN file.units ELSE NoUnits
\* load(): the canonical file afterwards
AfterLoad(file) == IF file.kind = "garbage" THEN LedgerFile(NoUnits) ELSE file
\* load(): the .corrupt sibling afterwards
BackupAfterLoad(file, backup) == IF file.kind = "garbage" THEN file ELSE backup
\* is_done(unit_key, stage)                                checkpoint.py:55-58
is_done(file, unit_key, stage) == StatusIsDone(Get(LoadUnits(file), unit_key, stage))
\* mark(unit_key, stage, status) when save succeeds        checkpoint.py:60-65
mark(file, unit_key, stage, status) ==
    LedgerFile(SetStatus(LoadUnits(file), unit_key, stage, status))

(***************************************************************************)
(* run_all.                                                                *)
(***************************************************************************)
Init ==
    /\ RunIdle
    /\ OthersIdle
    /\ ckptFile = Absent
    /\ corruptFile = Absent
    /\ tmpFile = Absent
    /\ strayTmp = 0
    /\ spc = "idle"
    /\ sop = NoOp
    /\ sdata = NoUnits
    /\ sret = NoRet
    /\ sbefore = Absent

cfg == env.cfg
video_id == VideoList[pr.vi]
unit_key == video_id

\* an outcome other than the nominal one may be taken while the budget lasts
Budget == env.faults < MaxFaults
Spend(o, nominal) == [env EXCEPT !.faults = IF o = nominal THEN @ ELSE @ + 1]
Outcomes(all, nominal) == IF Budget THEN all ELSE {nominal}

Goto(p) == [pr EXCEPT !.pc = p, !.call = NoCall]
\* the exception leaves run_all
Propagate(exc) ==
    [Idle(exc) EXCEPT !.failures = pr.failures, !.processed = pr.processed,
                      !.enriched = pr.enriched]
\* the loop over the sub-pipelines left after its first iteration
AfterSub_skip_comments(p) ==
    [p EXCEPT !.pc = "e_read", !.sub = "",
              !.call = NoCall, !.exc = "", !.mi = 0,
              !.raw = FALSE, !.segs = FALSE, !.chunks = FALSE,
              !.allNorm = FALSE, !.rawc = FALSE]
\* the end of one iteration of the loop over (transcript, comments)
\*                                                              run.py:231-253
\* (the locals of the sub-pipeline that ended go out of scope)
AfterSub(p) == [p EXCEPT !.pc = IF p.sub = "transcript" THEN "c_gate" ELSE "e_read",
                          !.sub = IF p.sub = "transcript" THEN "comments" ELSE "",
                          !.call = NoCall, !.exc = "", !.mi = 0,
                          !.raw = FALSE, !.segs = FALSE, !.chunks = FALSE,
                          !.allNorm = FALSE, !.rawc = FALSE]
\* an exception inside the try of run.py:237-238
SubRaise(exc) == [pr EXCEPT !.pc = "sub_fail", !.exc = exc, !.call = NoCall]

\* ckpt.is_done(...) as a step: what load() does to the files
IsDoneEffect ==
    /\ ckptFile' = AfterLoad(ckptFile)
    /\ corruptFile' = BackupAfterLoad(ckptFile, corruptFile)

\* ckpt.mark(unit_key, stage, status) as a step: save may raise OSError
MarkStep(stage, status, okPr, failPr) ==
    /\ corruptFile' = BackupAfterLoad(ckptFile, corruptFile)
    /\ \E ok \in Outcomes(BOOLEAN, TRUE) :
        /\ env' = Spend(ok, TRUE)
        /\ IF ok
           THEN /\ ckptFile' = mark(ckptFile, unit_key, stage, status)
                /\ pr' = okPr
           ELSE /\ ckptFile' = AfterLoad(ckptFile)
                /\ pr' = failPr

\* a step of run_all in Spec: neither the store client's own state nor the
\* state of the other specifications changes
NoStore == UNCHANGED <<tmpFile, strayTmp, spc, sop, sdata, sret, sbefore, otherVars>>
NoLedger == UNCHANGED <<ckptFile, corruptFile>>

\* run_all is called: a new run first, then resumes of the same run directory
\*                                                              run.py:161-180
run_all ==
    /\ NoStore
    /\ pr.pc = "idle"
    /\ env.runs < MaxRuns
    /\ env' = [env EXCEPT !.runs = @ + 1]
    /\ pr' = [Idle("") EXCEPT !.pc = IF env.runs = 0 THEN "preflight" ELSE "manifest",
                              !.resumed = env.runs > 0]
    /\ UNCHANGED fs /\ NoLedger

\* run_preflight(cfg, output_dir=out_dir)                       run.py:176-178
preflight ==
    /\ NoStore
    /\ pr.pc = "preflight"
    /\ \E ok \in Outcomes(BOOLEAN, TRUE) :
        /\ env' = Spend(ok, TRUE)
        /\ pr' = IF ok THEN Goto("manifest") ELSE Propagate("PreflightError")
    /\ UNCHANGED fs /\ NoLedger

\* the manifest snapshot                                        run.py:182-190
manifest ==
    /\ NoStore
    /\ pr.pc = "manifest"
    /\ pr' = Goto("ckpt_init")
    /\ UNCHANGED <<fs, env>> /\ NoLedger

\* ckpt.init_if_missing(): mkdir, exists(), write_text's open     run.py:193-194
ckpt_init ==
    /\ NoStore
    /\ pr.pc = "ckpt_init"
    /\ IF Exists(ckptFile)
       THEN /\ pr' = Goto("build_list")
            /\ UNCHANGED ckptFile
       ELSE /\ pr' = Goto("ckpt_init_write")
            /\ ckptFile' = Truncated
    /\ UNCHANGED <<fs, env, corruptFile>>

\* ckpt.init_if_missing(): write_text's write and close       checkpoint.py:21
ckpt_init_write ==
    /\ NoStore
    /\ pr.pc = "ckpt_init_write"
    /\ ckptFile' = LedgerFile(NoUnits)
    /\ pr' = Goto("build_list")
    /\ UNCHANGED <<fs, env, corruptFile>>

\* video_list = _build_video_list(cfg, out_dir)                 run.py:204-210
build_list ==
    /\ NoStore
    /\ pr.pc = "build_list"
    /\ pr' = [Goto("unit") EXCEPT !.vi = 1]
    /\ UNCHANGED <<fs, env>> /\ NoLedger

\* for video_entry in video_list: ... return result             run.py:213-220
unit ==
    /\ NoStore
    /\ pr.pc = "unit"
    /\ pr' = IF pr.vi > Len(VideoList)
             THEN [Idle("returned") EXCEPT !.failures = pr.failures,
                                           !.processed = pr.processed,
                                           !.enriched = pr.enriched]
             ELSE [Goto("t_gate") EXCEPT !.sub = "transcript"]
    /\ UNCHANGED <<fs, env>> /\ NoLedger

(***************************************************************************)
(* _collect_and_process_transcript                              run.py:259 *)
(***************************************************************************)
\* the transcript sub-pipeline entered without a look at the ledger
t_gate_ledger_not_read ==
    /\ NoStore
    /\ pr.pc = "t_gate"
    /\ IF ~cfg.TRANSCRIPTS_ENABLE
       THEN NoLedger /\ pr' = AfterSub(pr)
       ELSE IsDoneEffect /\ pr' = Goto("t_collect")
    /\ UNCHANGED <<fs, env>>

\* the two early returns                                        run.py:266-272
t_gate ==
    /\ NoStore
    /\ pr.pc = "t_gate"
    /\ IF ~cfg.TRANSCRIPTS_ENABLE
       THEN NoLedger /\ pr' = AfterSub(pr)
       ELSE /\ IsDoneEffect
            /\ pr' = IF is_done(ckptFile, unit_key, "transcript_chunk")
                     THEN AfterSub(pr)
                     ELSE Goto("t_collect")
    /\ UNCHANGED <<fs, env>>

\* raw_transcript = collect_transcript_ytdlp(video_url, cfg)        run.py:277
t_collect ==
    /\ NoStore
    /\ pr.pc = "t_collect"
    /\ \E o \in Outcomes({"rows", "empty", "raise"}, "rows") :
        /\ env' = Spend(o, "rows")
        /\ pr' = IF o = "raise"
                 THEN [SubRaise("Exception") EXCEPT
                          !.call = Call("collect_transcript_ytdlp", unit_key, "transcript_collect")]
                 ELSE [pr EXCEPT !.pc = "t_mark_collect", !.raw = (o = "rows"),
                          !.call = Call("collect_transcript_ytdlp", unit_key, "transcript_collect")]
    /\ UNCHANGED fs /\ NoLedger

\* a transcript without entries treated as an error of the sub-pipeline
t_mark_collect_empty_is_error ==
    /\ NoStore
    /\ pr.pc = "t_mark_collect"
    /\ MarkStep("transcript_collect", "DONE",
                IF pr.raw THEN Goto("t_normalize") ELSE SubRaise("Exception"),
                SubRaise("OSError"))
    /\ UNCHANGED fs

\* ckpt.mark(unit_key, "transcript_collect") and the empty return
\*                                                              run.py:280-284
t_mark_collect ==
    /\ NoStore
    /\ pr.pc = "t_mark_collect"
    /\ MarkStep("transcript_collect", "DONE",
                IF pr.raw THEN Goto("t_normalize") ELSE AfterSub(pr),
                SubRaise("OSError"))
    /\ UNCHANGED fs

\* segments = normalize_transcripts(raw_transcript, video_id, cfg)  run.py:287
t_normalize ==
    /\ NoStore
    /\ pr.pc = "t_normalize"
    /\ \E o \in Outcomes({"rows", "raise"}, "rows") :
        /\ env' = Spend(o, "rows")
        /\ pr' = IF o = "raise"
                 THEN [SubRaise("Exception") EXCEPT
                          !.call = Call("normalize_transcripts", unit_key, "transcript_normalize")]
                 ELSE [pr EXCEPT !.pc = "t_mark_normalize", !.segs = TRUE,
                          !.call = Call("normalize_transcripts", unit_key, "transcript_normalize")]
    /\ UNCHANGED fs /\ NoLedger

\* ckpt.mark(unit_key, "transcript_normalize")                      run.py:288
t_mark_normalize ==
    /\ NoStore
    /\ pr.pc = "t_mark_normalize"
    /\ MarkStep("transcript_normalize", "DONE", Goto("t_write_segments"),
                SubRaise("OSError"))
    /\ UNCHANGED fs

\* write_jsonl(seg_path, segments)                              run.py:291-294
t_write_segments ==
    /\ NoStore
    /\ pr.pc = "t_write_segments"
    /\ fs' = [fs EXCEPT !.seg[unit_key] = @ + 1]
    /\ pr' = Goto("t_chunk")
    /\ UNCHANGED env /\ NoLedger

\* chunks = chunk_transcripts(segments, cfg)                        run.py:297
t_chunk ==
    /\ NoStore
    /\ pr.pc = "t_chunk"
    /\ \E o \in Outcomes({"rows", "empty", "raise"}, "rows") :
        /\ env' = Spend(o, "rows")
        /\ pr' = IF o = "raise"
                 THEN [SubRaise("Exception") EXCEPT
                          !.call = Call("chunk_transcripts", unit_key, "transcript_chunk")]
                 ELSE [pr EXCEPT !.pc = "t_mark_chunk", !.chunks = (o = "rows"),
                          !.call = Call("chunk_transcripts", unit_key, "transcript_chunk")]
    /\ UNCHANGED fs /\ NoLedger

\* ckpt.mark(unit_key, "transcript_chunk")                          run.py:298
t_mark_chunk ==
    /\ NoStore
    /\ pr.pc = "t_mark_chunk"
    /\ MarkStep("transcript_chunk", "DONE", Goto("t_write_chunks"),
                SubRaise("OSError"))
    /\ UNCHANGED fs

\* write_jsonl(chunk_path, chunks)                              run.py:301-305
t_write_chunks ==
    /\ NoStore
    /\ pr.pc = "t_write_chunks"
    /\ fs' = [fs EXCEPT !.chunk[unit_key] = IF pr.chunks THEN @ + 1 ELSE @]
    /\ pr' = AfterSub(pr)
    /\ UNCHANGED env /\ NoLedger

(***************************************************************************)
(* The except clause of _process_single_video                 run.py:239   *)
(***************************************************************************)
\* write_failure(...); result.failures.append(...)              run.py:241-244
sub_fail ==
    /\ NoStore
    /\ pr.pc = "sub_fail"
    /\ fs' = [fs EXCEPT !.fail[unit_key][pr.sub] = @ + 1]
    /\ pr' = [Goto("sub_fail_mark") EXCEPT
                !.failures = Append(@, [stage |-> pr.sub, video_id |-> video_id,
                                        error |-> pr.exc])]
    /\ UNCHANGED env /\ NoLedger

\* the handler without the policy test: it always re-raises
sub_fail_mark_always_raise ==
    /\ NoStore
    /\ pr.pc = "sub_fail_mark"
    /\ MarkStep(pr.sub, "FAILED", Propagate("CollectionError"),
                Propagate("OSError"))
    /\ UNCHANGED fs

\* the handler without the raise: it always continues
sub_fail_mark_never_raise ==
    /\ NoStore
    /\ pr.pc = "sub_fail_mark"
    /\ MarkStep(pr.sub, "FAILED", AfterSub(pr), Propagate("OSError"))
    /\ UNCHANGED fs

\* ckpt.mark(unit_key, stage_name, status="FAILED"); abort or skip
\*                                                              run.py:245-251
sub_fail_mark ==
    /\ NoStore
    /\ pr.pc = "sub_fail_mark"
    /\ MarkStep(pr.sub, "FAILED",
                IF cfg.ON_VIDEO_FAILURE = "abort"
                THEN Propagate("CollectionError")
                ELSE AfterSub(pr),
                Propagate("OSError"))
    /\ UNCHANGED fs

(***************************************************************************)
(* _collect_and_process_comments                                run.py:308 *)
(***************************************************************************)
sort_mode == COLLECT_SORT_MODES[pr.mi]
sm_ckpt_key == IF sort_mode = "top" THEN "comments_collect_top"
                                    ELSE "comments_collect_newest"

\* the early return; all_normalized = []                        run.py:313-317
c_gate ==
    /\ NoStore
    /\ pr.pc = "c_gate"
    /\ IsDoneEffect
    /\ pr' = IF is_done(ckptFile, unit_key, "comments_normalize")
             THEN AfterSub(pr)
             ELSE [Goto("c_mode") EXCEPT !.mi = 1, !.allNorm = FALSE]
    /\ UNCHANGED <<fs, env>>

\* for sort_mode in cfg.COLLECT_SORT_MODES; the branch of a mode that is DONE
\* reads the per-mode file and filters it to the unit          run.py:319-331
c_mode ==
    /\ NoStore
    /\ pr.pc = "c_mode"
    /\ IF pr.mi > Len(COLLECT_SORT_MODES)
       THEN /\ pr' = Goto("c_aggregate")
            /\ NoLedger
       ELSE /\ IsDoneEffect
            /\ pr' = IF is_done(ckptFile, unit_key, sm_ckpt_key)
                     THEN [Goto("c_mode") EXCEPT
                              !.allNorm = @ \/ fs.mode[unit_key][sort_mode] > 0,
                              !.mi = @ + 1]
                     ELSE [Goto("c_primary") EXCEPT !.rawc = FALSE]
    /\ UNCHANGED <<fs, env>>

\* the primary collector called outside a try of its own
c_primary_uncaught ==
    /\ NoStore
    /\ pr.pc = "c_primary"
    /\ \E o \in Outcomes({"rows", "empty", "raise"}, "rows") :
        /\ env' = Spend(o, "rows")
        /\ pr' = IF o = "raise"
                 THEN SubRaise("Exception")
                 ELSE [pr EXCEPT !.pc = IF o = "rows" THEN "c_normalize" ELSE "c_secondary",
                                 !.rawc = (o = "rows"),
                                 !.call = Call("collect_comments_playwright_ui", unit_key, sm_ckpt_key)]
    /\ UNCHANGED fs /\ NoLedger

\* collect_comments_playwright_ui(...) inside its own try       run.py:334-345
c_primary ==
    /\ NoStore
    /\ pr.pc = "c_primary"
    /\ \E o \in Outcomes({"rows", "empty", "raise"}, "rows") :
        /\ env' = Spend(o, "rows")
        /\ pr' = [pr EXCEPT !.pc = IF o = "rows" THEN "c_normalize" ELSE "c_secondary",
                            !.rawc = (o = "rows"),
                            !.call = Call("collect_comments_playwright_ui", unit_key, sm_ckpt_key)]
    /\ UNCHANGED fs /\ NoLedger

\* if not raw_comments: collect_comments_ytdlp(...) inside its own try
\*                                                              run.py:347-357
c_secondary ==
    /\ NoStore
    /\ pr.pc = "c_secondary"
    /\ \E o \in Outcomes({"rows", "empty", "raise"}, "rows") :
        /\ env' = Spend(o, "rows")
        /\ pr' = [pr EXCEPT !.pc = IF o = "rows" THEN "c_normalize" ELSE "c_mark_empty",
                            !.rawc = (o = "rows"),
                            !.call = Call("collect_comments_ytdlp", unit_key, sm_ckpt_key)]
    /\ UNCHANGED fs /\ NoLedger

\* if not raw_comments: ckpt.mark(unit_key, sm_ckpt_key); continue
\*                                                              run.py:359-362
c_mark_empty ==
    /\ NoStore
    /\ pr.pc = "c_mark_empty"
    /\ MarkStep(sm_ckpt_key, "DONE", [Goto("c_mode") EXCEPT !.mi = @ + 1],
                SubRaise("OSError"))
    /\ UNCHANGED fs

\* normalized = normalize_comments(raw_comments, ...)               run.py:365
c_normalize ==
    /\ NoStore
    /\ pr.pc = "c_normalize"
    /\ \E o \in Outcomes({"rows", "raise"}, "rows") :
        /\ env' = Spend(o, "rows")
        /\ pr' = IF o = "raise"
                 THEN [SubRaise("Exception") EXCEPT
                          !.call = Call("normalize_comments", unit_key, "comments_normalize")]
                 ELSE [pr EXCEPT !.pc = "c_write_mode",
                          !.call = Call("normalize_comments", unit_key, "comments_normalize")]
    /\ UNCHANGED fs /\ NoLedger

\* write_jsonl(per_mode_path, normalized)                       run.py:368-369
c_write_mode ==
    /\ NoStore
    /\ pr.pc = "c_write_mode"
    /\ fs' = [fs EXCEPT !.mode[unit_key][sort_mode] = @ + 1]
    /\ pr' = Goto("c_mark_mode")
    /\ UNCHANGED env /\ NoLedger

\* ckpt.mark(unit_key, sm_ckpt_key); all_normalized.extend(normalized)
\*                                                              run.py:370-372
c_mark_mode ==
    /\ NoStore
    /\ pr.pc = "c_mark_mode"
    /\ MarkStep(sm_ckpt_key, "DONE",
                [Goto("c_mode") EXCEPT !.allNorm = TRUE, !.mi = @ + 1],
                SubRaise("OSError"))
    /\ UNCHANGED fs

\* the dedup loop and write_jsonl(comments_path, deduped)       run.py:374-393
c_aggregate ==
    /\ NoStore
    /\ pr.pc = "c_aggregate"
    /\ fs' = [fs EXCEPT !.agg[unit_key] = IF pr.allNorm THEN @ + 1 ELSE @]
    /\ pr' = Goto("c_mark_normalize")
    /\ UNCHANGED env /\ NoLedger

\* ckpt.mark(unit_key, "comments_normalize")                        run.py:394
c_mark_normalize ==
    /\ NoStore
    /\ pr.pc = "c_mark_normalize"
    /\ MarkStep("comments_normalize", "DONE", AfterSub(pr), SubRaise("OSError"))
    /\ UNCHANGED fs

(***************************************************************************)
(* _enrich_video                                                run.py:397 *)
(***************************************************************************)
stage == EnrichStages[pr.ei]
\* the configuration switch in front of a stage's is_done
\*                                          run.py:427, 441, 472, 496, 520, 544
Enabled(s) ==
    CASE s = "enrich_embeddings" -> cfg.EMBEDDINGS_ENABLE
      [] s = "enrich_urls" -> cfg.URL_EXTRACTION_ENABLE
      [] s = "enrich_summary" -> cfg.SUMMARY_ENABLE
      [] OTHER -> TRUE
\* the function a stage calls
EnrichFn(s) ==
    CASE s = "enrich_embeddings" -> "compute_embeddings"
      [] s = "enrich_topics" -> "extract_topics_nlp"
      [] s = "enrich_sentiment" -> "analyze_sentiment"
      [] s = "enrich_triples" -> "extract_triples"
      [] s = "enrich_urls" -> "extract_urls"
      [] OTHER -> "summarize_content"
\* comments + chunks of the unit, read back from the files      run.py:407-411
HasItems(u) == fs.agg[u] > 0 \/ fs.chunk[u] > 0

\* the stages entered whether or not the unit has items
e_read_items_not_checked ==
    /\ NoStore
    /\ pr.pc = "e_read"
    /\ pr' = [Goto("e_gate") EXCEPT !.ei = 1, !.emb = FALSE,
                                    !.enriched = @ \cup {unit_key}]
    /\ UNCHANGED <<fs, env>> /\ NoLedger

\* if not all_items: return; embeddings = None                  run.py:413-426
e_read ==
    /\ NoStore
    /\ pr.pc = "e_read"
    /\ pr' = IF HasItems(unit_key)
             THEN [Goto("e_gate") EXCEPT !.ei = 1, !.emb = FALSE,
                                         !.enriched = @ \cup {unit_key}]
             ELSE [Goto("unit_done") EXCEPT !.enriched = @ \cup {unit_key}]
    /\ UNCHANGED <<fs, env>> /\ NoLedger

\* if <enabled> and not ckpt.is_done(unit_key, <stage>)
e_gate ==
    /\ NoStore
    /\ pr.pc = "e_gate"
    /\ IF pr.ei > Len(EnrichStages)
       THEN /\ pr' = Goto("unit_done")
            /\ NoLedger
       ELSE IF ~Enabled(stage)
       THEN /\ pr' = [Goto("e_gate") EXCEPT !.ei = @ + 1]
            /\ NoLedger
       ELSE /\ IsDoneEffect
            /\ pr' = IF is_done(ckptFile, unit_key, stage)
                     THEN [Goto("e_gate") EXCEPT !.ei = @ + 1]
                     ELSE Goto("e_call")
    /\ UNCHANGED <<fs, env>>

\* the stage's function, called on the comments and on the chunks
e_call ==
    /\ NoStore
    /\ pr.pc = "e_call"
    /\ \E o \in Outcomes(IF stage = "enrich_embeddings" THEN {"rows", "raise"}
                         ELSE {"rows", "empty", "raise"}, "rows") :
        /\ env' = Spend(o, "rows")
        /\ pr' = [pr EXCEPT
                    !.pc = CASE o = "raise" -> "e_fail"
                             [] o = "rows" /\ stage # "enrich_embeddings" -> "e_write"
                             [] OTHER -> "e_mark",
                    !.exc = IF o = "raise" THEN "Exception" ELSE "",
                    !.emb = IF stage = "enrich_embeddings" THEN o = "rows" ELSE @,
                    !.recs = (o = "rows"),
                    !.ran = @ \cup {stage},
                    !.call = [Call(EnrichFn(stage), unit_key, stage) EXCEPT
                                !.emb = (stage = "enrich_topics" /\ pr.emb)]]
    /\ UNCHANGED fs /\ NoLedger

\* if all_<records>: write_jsonl(<path>, all_<records>)
e_write ==
    /\ NoStore
    /\ pr.pc = "e_write"
    /\ fs' = [fs EXCEPT !.enrich[unit_key][stage] = @ + 1]
    /\ pr' = Goto("e_mark")
    /\ UNCHANGED env /\ NoLedger

\* ckpt.mark(unit_key, <stage>), still inside the stage's try
e_mark ==
    /\ NoStore
    /\ pr.pc = "e_mark"
    /\ MarkStep(stage, "DONE", [Goto("e_gate") EXCEPT !.ei = @ + 1, !.recs = FALSE],
                [Goto("e_fail") EXCEPT !.exc = "OSError"])
    /\ UNCHANGED fs

\* except Exception: write_failure(...); result.failures.append(...)
e_fail ==
    /\ NoStore
    /\ pr.pc = "e_fail"
    /\ fs' = [fs EXCEPT !.fail[unit_key][stage] = @ + 1]
    /\ pr' = [Goto("e_fail_mark") EXCEPT
                !.failures = Append(@, [stage |-> stage, video_id |-> video_id,
                                        error |-> pr.exc])]
    /\ UNCHANGED env /\ NoLedger

\* the handler of one stage returning from _enrich_video: the stages after
\* the failed one are abandoned
e_fail_mark_abandon ==
    /\ NoStore
    /\ pr.pc = "e_fail_mark"
    /\ MarkStep(stage, "FAILED",
                [Goto("unit_done") EXCEPT !.exc = "", !.recs = FALSE],
                Propagate("OSError"))
    /\ UNCHANGED fs

\* ckpt.mark(unit_key, <stage>, status="FAILED")
e_fail_mark ==
    /\ NoStore
    /\ pr.pc = "e_fail_mark"
    /\ MarkStep(stage, "FAILED",
                [Goto("e_gate") EXCEPT !.ei = @ + 1, !.exc = "", !.recs = FALSE],
                Propagate("OSError"))
    /\ UNCHANGED fs

\* result.videos_processed += 1                                 run.py:253-256
unit_done ==
    /\ NoStore
    /\ pr.pc = "unit_done"
    /\ pr' = [Goto("unit") EXCEPT !.processed = @ + 1, !.vi = @ + 1,
                                   !.ei = 0, !.emb = FALSE, !.recs = FALSE,
                                   !.ran = {}]
    /\ UNCHANGED <<fs, env>> /\ NoLedger

\* the process is killed: the locals are lost, the files stay
Kill ==
    /\ NoStore
    /\ pr.pc # "idle"
    /\ Budget
    /\ env' = [env EXCEPT !.faults = @ + 1]
    /\ pr' = Idle("killed")
    /\ UNCHANGED fs /\ NoLedger


Next ==
    \/ run_all
    \/ preflight
    \/ manifest
    \/ ckpt_init
    \/ ckpt_init_write
    \/ build_list
    \/ unit
    \/ t_gate
    \/ t_collect
    \/ t_mark_collect
    \/ t_normalize
    \/ t_mark_normalize
    \/ t_write_segments
    \/ t_chunk
    \/ t_mark_chunk
    \/ t_write_chunks
    \/ sub_fail
    \/ sub_fail_mark
    \/ c_gate
    \/ c_mode
    \/ c_primary
    \/ c_secondary
    \/ c_mark_empty
    \/ c_normalize
    \/ c_write_mode
    \/ c_mark_mode
    \/ c_aggregate
    \/ c_mark_normalize
    \/ e_read
    \/ e_gate
    \/ e_call
    \/ e_write
    \/ e_mark
    \/ e_fail
    \/ e_fail_mark
    \/ unit_done
    \/ Kill

Spec == Init /\ [][Next]_vars

\* run_all under every configuration, the transcripts enabled or not
InitAnyConfig ==
    /\ fs = EmptyFs
    /\ pr = Idle("")
    /\ env \in [runs : {0}, faults : {0}, cfg : Configs \cup ConfigsTranscriptsOff]
    /\ OthersIdle
    /\ ckptFile = Absent
    /\ corruptFile = Absent
    /\ tmpFile = Absent
    /\ strayTmp = 0
    /\ spc = "idle"
    /\ sop = NoOp
    /\ sdata = NoUnits
    /\ sret = NoRet
    /\ sbefore = Absent

SpecAnyConfig == InitAnyConfig /\ [][Next]_vars

(***************************************************************************)
(* run_all from its call to the unit loop, and the resume checks of the    *)
(* command line.                                     run.py:57-124, 161-220 *)
(***************************************************************************)
SetupInit ==
    /\ RunIdle
    /\ env.cfg.ON_VIDEO_FAILURE = "skip"
    /\ ckptFile = Absent
    /\ corruptFile = Absent
    /\ tmpFile = Absent
    /\ strayTmp = 0
    /\ spc = "idle"
    /\ sop = NoOp
    /\ sdata = NoUnits
    /\ sret = NoRet
    /\ sbefore = Absent
    /\ cm = NotInUse
    /\ tx = NotInUse
    /\ sd \in {SetupStart(c) : c \in SetupConfigs}

NoRun == UNCHANGED <<storeVars, runVars, cm, tx>>

\* base_dir / id as a directory of the model
Dir(id) == IF id \in DirIds THEN sd.dirs[id] ELSE NoDir
\* run_dir.is_dir(), (run_dir / "manifest.json").exists()
IsDir(id) == Dir(id).exists
HasManifest(id) == Dir(id).manifest

\* the invocation ends: the locals are gone, the directories stay
SetupEnd(out) == [sd EXCEPT !.p = SetupIdle(out)]
\* the invocation goes on at p with the locals changed as in q
SetupGoto(p, q) == [sd EXCEPT !.p = [q EXCEPT !.pc = p]]
\* a call begins: a new run only while there is none, a resume at any time
SetupCall(via, id) ==
    [sd EXCEPT !.runs = @ + 1,
               !.p = [SetupIdle("") EXCEPT
                        !.pc = "resume_check", !.via = via, !.resume = id,
                        !.found = [dir |-> IsDir(id), manifest |-> HasManifest(id)]]]
CanCall(id) ==
    /\ sd.p.pc = "idle"
    /\ sd.runs < MaxRuns
    /\ id = NoResume => ~IsDir(NewRunId)

\* yt-content-analyzer run-all [--resume id]: the checks before run_all is
\* called                                              cli.py:124-133, 186
run_all_cmd ==
    /\ NoRun
    /\ \E id \in RunIds \cup {NoResume} :
        /\ CanCall(id)
        /\ sd' = IF id # NoResume /\ (~IsDir(id) \/ ~HasManifest(id))
                 THEN [SetupEnd("BadParameter") EXCEPT !.runs = @ + 1]
                 ELSE SetupCall("cli", id)

\* run_all(cfg, resume_run_id=id) called by a program
run_all_api ==
    /\ NoRun
    /\ \E id \in RunIds \cup {NoResume} :
        /\ CanCall(id)
        /\ sd' = SetupCall("api", id)

\* if resume_run_id: validate ... else: out_dir.mkdir(parents=True)
\*                                                          run.py:163-173
resume_check ==
    /\ NoRun
    /\ sd.p.pc = "resume_check"
    /\ sd' = IF sd.p.resume # NoResume
             THEN IF InvalidRunId(sd.p.resume)
                  THEN SetupGoto("raise_ValueError", sd.p)
                  ELSE SetupGoto("manifest_snapshot",
                                 [sd.p EXCEPT !.out_dir = sd.p.resume])
             ELSE [SetupGoto("run_preflight",
                             [sd.p EXCEPT !.out_dir = NewRunId,
                                          !.effects = @ + 1])
                     EXCEPT !.dirs = [d \in DirIds |->
                                        [sd.dirs[d] EXCEPT !.exists = TRUE]]]

\* raise ValueError(f"Invalid resume run_id ...")               run.py:166
raise_ValueError ==
    /\ NoRun
    /\ sd.p.pc = "raise_ValueError"
    /\ sd' = SetupEnd("ValueError")

\* run_preflight with its verdict not looked at
run_preflight_verdict_ignored ==
    /\ NoRun
    /\ sd.p.pc = "run_preflight"
    /\ \E ok \in IF sd.faults < MaxFaults THEN BOOLEAN ELSE {TRUE} :
        sd' = [sd EXCEPT !.dirs[sd.p.out_dir].report = TRUE,
                         !.faults = IF ok THEN @ ELSE @ + 1,
                         !.p = [sd.p EXCEPT !.preflights = @ + 1,
                                            !.effects = @ + 1,
                                            !.pre = IF ok THEN "ok" ELSE "failed",
                                            !.wrote = @ \cup {"report"},
                                            !.pc = "manifest_snapshot"]]

\* run_preflight(cfg, output_dir=out_dir): the report, then the verdict
\*                                                          run.py:176-178
run_preflight ==
    /\ NoRun
    /\ sd.p.pc = "run_preflight"
    /\ \E ok \in IF sd.faults < MaxFaults THEN BOOLEAN ELSE {TRUE} :
        LET q == [sd.p EXCEPT !.preflights = @ + 1, !.effects = @ + 1,
                              !.pre = IF ok THEN "ok" ELSE "failed",
                              !.wrote = @ \cup {"report"}]
            d == [sd EXCEPT !.dirs[sd.p.out_dir].report = TRUE,
                            !.faults = IF ok THEN @ ELSE @ + 1]
        IN  sd' = IF ok
                  THEN [d EXCEPT !.p = [q EXCEPT !.pc = "manifest_snapshot"]]
                  ELSE [d EXCEPT !.p = SetupIdle("PreflightError")]

\* (out_dir / "logs").mkdir(exist_ok=True); manifest_path.write_text(...)
\*                                                          run.py:183-190
manifest_snapshot ==
    /\ NoRun
    /\ sd.p.pc = "manifest_snapshot"
    /\ sd' = IF ~IsDir(sd.p.out_dir)
             THEN SetupEnd("FileNotFoundError")
             ELSE [SetupGoto("init_ledger",
                             [sd.p EXCEPT !.effects = @ + 1,
                                          !.wrote = @ \cup {"manifest"}])
                     EXCEPT !.dirs[sd.p.out_dir].manifest = TRUE]

\* ckpt = CheckpointStore(...); ckpt.init_if_missing()      run.py:193-194
init_ledger ==
    /\ NoRun
    /\ sd.p.pc = "init_ledger"
    /\ sd' = IF Dir(sd.p.out_dir).ledger
             THEN SetupGoto("build_video_list", sd.p)
             ELSE [SetupGoto("build_video_list",
                             [sd.p EXCEPT !.effects = @ + 1,
                                          !.wrote = @ \cup {"ledger"}])
                     EXCEPT !.dirs[sd.p.out_dir].ledger = TRUE]

\* the list as _build_video_list returns it to run_all; `if not video_list:
\* return result`                                           run.py:204-210
Derived(d, list) ==
    IF list = << >>
    THEN [d EXCEPT !.p = SetupIdle("returned")]
    ELSE [d EXCEPT !.p = [d.p EXCEPT !.pc = "units", !.video_list = list,
                                     !.vi = 1, !.acc = << >>, !.ti = 0,
                                     !.raised = {}]]

\* write_jsonl(disc_path, list, mode="w") when the list is not empty
\*                                                  run.py:84-86, 116-118
WriteDiscovery(d, list) ==
    IF list = << >>
    THEN d
    ELSE [d EXCEPT !.dirs[d.p.out_dir].disc = list,
                   !.p.effects = @ + 1,
                   !.p.wrote = @ \cup {"discovery"}]

\* _build_video_list: the input mode; the single-URL list       run.py:62-95
build_video_list ==
    /\ NoRun
    /\ sd.p.pc = "build_video_list"
    /\ sd' = IF sd.cfg.mode = "url"
             THEN Derived(sd, <<Entry(VIDEO_URL_ID, "url")>>)
             ELSE SetupGoto("resolve", [sd.p EXCEPT !.ti = 1, !.acc = << >>])

\* the loop with the failure policy not consulted: a resolver that raises
\* is always passed over
Resolve_policy_ignored(sources, max_videos) ==
    /\ sd.p.pc = "resolve"
    /\ sd.p.ti <= Len(sources)
    /\ \/ \E r \in ResolverResults(sources[sd.p.ti], max_videos) :
            sd' = SetupGoto("resolve", [sd.p EXCEPT !.resolved = @ + 1,
                                                    !.acc = @ \o r,
                                                    !.ti = @ + 1])
       \/ sd' = SetupGoto("resolve", [sd.p EXCEPT !.resolved = @ + 1,
                                                  !.raised = @ \cup {sources[sd.p.ti]},
                                                  !.ti = @ + 1])

\* one iteration of the loop over the terms or the channels: the resolver
\* returns a list or raises                         run.py:70-81, 95-104
Resolve(sources, max_videos) ==
    /\ sd.p.pc = "resolve"
    /\ sd.p.ti <= Len(sources)
    /\ \/ \E r \in ResolverResults(sources[sd.p.ti], max_videos) :
            sd' = SetupGoto("resolve", [sd.p EXCEPT !.resolved = @ + 1,
                                                    !.acc = @ \o r,
                                                    !.ti = @ + 1])
       \/ sd' = IF sd.cfg.ON_VIDEO_FAILURE = "abort"
                THEN SetupEnd("CollectionError")
                ELSE SetupGoto("resolve", [sd.p EXCEPT !.resolved = @ + 1,
                                                       !.raised = @ \cup {sources[sd.p.ti]},
                                                       !.ti = @ + 1])

resolve_search_videos ==
    /\ NoRun
    /\ sd.cfg.mode = "search"
    /\ Resolve(SEARCH_TERMS, MaxPerTerm)

resolve_channel_videos ==
    /\ NoRun
    /\ sd.cfg.mode = "channels"
    /\ Resolve(YT_SUBSCRIPTIONS, MaxPerChannel)

\* the loop of run.py:107-112: seen, deduped
RECURSIVE DedupLoop(_, _, _)
DedupLoop(videos, seen, deduped) ==
    IF videos = << >>
    THEN deduped
    ELSE LET v == Head(videos)
         IN  IF v.VIDEO_ID \notin seen
             THEN DedupLoop(Tail(videos), seen \cup {v.VIDEO_ID}, Append(deduped, v))
             ELSE DedupLoop(Tail(videos), seen, deduped)
\* the slice taken one entry too long
SlicePrefix_one_more(s, n) == SubSeq(s, 1, IF n + 1 < Len(s) THEN n + 1 ELSE Len(s))
\* deduped[:cfg.MAX_TOTAL_VIDEOS], for a maximum >= 0                           run.py:113
SlicePrefix(s, n) == SubSeq(s, 1, IF n < Len(s) THEN n ELSE Len(s))

\* search mode after the loop: deduplicate by VIDEO_ID, truncate
\*                                                          run.py:106-113
dedup_search_videos ==
    /\ NoRun
    /\ sd.cfg.mode = "search"
    /\ sd.p.pc = "resolve"
    /\ sd.p.ti > Len(SEARCH_TERMS)
    /\ sd' = SetupGoto("write_discovery",
                       [sd.p EXCEPT !.video_list =
                           SlicePrefix(DedupLoop(sd.p.acc, {}, << >>),
                                       sd.cfg.MAX_TOTAL_VIDEOS)])

\* search mode: write the discovery manifest, return         run.py:115-121
write_search_videos ==
    /\ NoRun
    /\ sd.p.pc = "write_discovery"
    /\ sd' = Derived(WriteDiscovery(sd, sd.p.video_list), sd.p.video_list)

\* subscription mode after the loop: write the discovery manifest, return
\*                                                           run.py:83-89
all_videos ==
    /\ NoRun
    /\ sd.cfg.mode = "channels"
    /\ sd.p.pc = "resolve"
    /\ sd.p.ti > Len(YT_SUBSCRIPTIONS)
    /\ sd' = Derived(WriteDiscovery(sd, sd.p.acc), sd.p.acc)

\* for video_entry in video_list: _process_single_video(...); return result
\*                                                          run.py:213-220
process_single_video ==
    /\ NoRun
    /\ sd.p.pc = "units"
    /\ sd' = IF sd.p.vi > Len(sd.p.video_list)
             THEN SetupEnd("returned")
             ELSE LET v == sd.p.video_list[sd.p.vi].VIDEO_ID
                  IN  [SetupGoto("units", [sd.p EXCEPT !.vi = @ + 1,
                                                       !.processed = Append(@, v),
                                                       !.effects = @ + 1])
                         EXCEPT !.dirs[sd.p.out_dir].units = @ \cup {v}]

\* the process is killed before the unit loop ends
SetupKill ==
    /\ NoRun
    /\ sd.p.pc # "idle"
    /\ sd.faults < MaxFaults
    /\ sd' = [SetupEnd("killed") EXCEPT !.faults = @ + 1]

\* the exit status the run-all command ends with: SystemExit(2) after a
\* PreflightError, click's usage error (2) for BadParameter, the
\* interpreter's 1 for an exception nothing catches, 0 when the summary has
\* been printed                                       cli.py:128-133, 185-202
exit_status(out) ==
    CASE out = "returned" -> 0
      [] out \in {"PreflightError", "BadParameter"} -> 2
      [] OTHER -> 1

SetupNext ==
    \/ run_all_cmd
    \/ run_all_api
    \/ resume_check
    \/ raise_ValueError
    \/ run_preflight
    \/ manifest_snapshot
    \/ init_ledger
    \/ build_video_list
    \/ resolve_search_videos
    \/ resolve_channel_videos
    \/ dedup_search_videos
    \/ write_search_videos
    \/ all_videos
    \/ process_single_video
    \/ SetupKill

SpecSetup == SetupInit /\ [][SetupNext]_vars

(***************************************************************************)
(* The comments aggregate: all_normalized over the sort modes, the dedup   *)
(* loop and the merged file.                          run.py:319-387       *)
(***************************************************************************)
\* values of comment.get("id", ""): identifiers, the empty string, None
CommentIds == {"a", "b", "", "None"}
\* Python's truth value of a COMMENT_ID ("if cid")
Truthy(cid) == cid \notin {"", "None"}
\* a normalized comment; TEXT tells the comments of one mode apart
Comment(cid, mode, text) == [COMMENT_ID |-> cid, SORT_MODE |-> mode, TEXT |-> text]
\* normalize_comments(raw_comments, video_id, cfg, sort_mode=sort_mode)
NormalizedLists(mode) ==
    UNION {{[i \in 1..n |-> Comment(ids[i], mode, i)] : ids \in [1..n -> CommentIds]} :
              n \in 0..MaxComments}

DedupStart(raw) ==
    [pc |-> "modes", raw |-> raw, mi |-> 1, all_normalized |-> << >>,
     i |-> 0, seen_ids |-> {}, deduped |-> << >>, comments_jsonl |-> << >>]

DedupInit ==
    /\ RunIdle
    /\ env.cfg.ON_VIDEO_FAILURE = "skip"
    /\ ckptFile = Absent
    /\ corruptFile = Absent
    /\ tmpFile = Absent
    /\ strayTmp = 0
    /\ spc = "idle"
    /\ sop = NoOp
    /\ sdata = NoUnits
    /\ sret = NoRet
    /\ sbefore = Absent
    /\ sd = NotInUse
    /\ tx = NotInUse
    /\ cm \in {DedupStart(raw) :
                  raw \in {r \in [SortModeSet -> UNION {NormalizedLists(m) : m \in SortModeSet}] :
                              \A m \in SortModeSet : r[m] \in NormalizedLists(m)}}

NoPipeline == UNCHANGED <<storeVars, runVars, sd, tx>>

\* all_normalized.extend(...) of one sort mode, in configured order
\*                                                      run.py:319-372
all_normalized_extend ==
    /\ NoPipeline
    /\ cm.pc = "modes"
    /\ cm' = IF cm.mi > Len(COLLECT_SORT_MODES)
             THEN [cm EXCEPT !.pc = "dedup", !.i = 1]
             ELSE [cm EXCEPT !.all_normalized = @ \o cm.raw[COLLECT_SORT_MODES[cm.mi]],
                             !.mi = @ + 1]

\* one iteration of "for c in all_normalized", the comments without an
\* identifier dropped
dedup_comment_drop_unidentified ==
    /\ NoPipeline
    /\ cm.pc = "dedup"
    /\ cm.i <= Len(cm.all_normalized)
    /\ LET c == cm.all_normalized[cm.i]
           cid == c.COMMENT_ID
       IN  cm' = IF Truthy(cid) /\ cid \notin cm.seen_ids
                 THEN [cm EXCEPT !.seen_ids = @ \cup {cid},
                                 !.deduped = Append(@, c),
                                 !.i = @ + 1]
                 ELSE [cm EXCEPT !.i = @ + 1]

\* one iteration of "for c in all_normalized"                run.py:377-383
dedup_comment ==
    /\ NoPipeline
    /\ cm.pc = "dedup"
    /\ cm.i <= Len(cm.all_normalized)
    /\ LET c == cm.all_normalized[cm.i]
           cid == c.COMMENT_ID
       IN  cm' = IF Truthy(cid) /\ cid \notin cm.seen_ids
                 THEN [cm EXCEPT !.seen_ids = @ \cup {cid},
                                 !.deduped = Append(@, c),
                                 !.i = @ + 1]
                 ELSE IF ~Truthy(cid)
                      THEN [cm EXCEPT !.deduped = Append(@, c), !.i = @ + 1]
                      ELSE [cm EXCEPT !.i = @ + 1]

\* write_jsonl(comments_path, deduped) into a new run directory
\*                                                           run.py:386-387
write_merged ==
    /\ NoPipeline
    /\ cm.pc = "dedup"
    /\ cm.i > Len(cm.all_normalized)
    /\ cm' = [cm EXCEPT !.pc = "written", !.comments_jsonl = @ \o cm.deduped]

DedupNext ==
    \/ all_normalized_extend
    \/ dedup_comment
    \/ write_merged

SpecDedup == DedupInit /\ [][DedupNext]_vars

(***************************************************************************)
(* chunk_transcripts: time-based sliding windows over the segments.        *)
(* Times are whole seconds, on which round(x, 3) changes nothing.          *)
(*                                          parse/chunk_transcripts.py     *)
(***************************************************************************)
\* the rest of the program while one function of parse/ is looked at
ParseOnly ==
    /\ RunIdle
    /\ env.cfg.ON_VIDEO_FAILURE = "skip"
    /\ ckptFile = Absent
    /\ corruptFile = Absent
    /\ tmpFile = Absent
    /\ strayTmp = 0
    /\ spc = "idle"
    /\ sop = NoOp
    /\ sdata = NoUnits
    /\ sret = NoRet
    /\ sbefore = Absent
    /\ sd = NotInUse
    /\ cm = NotInUse
NoProgram == UNCHANGED <<storeVars, runVars, sd, cm>>

Seconds == 0..MaxSeconds
\* a segment as normalize_transcripts builds it: END_S = start + duration,
\* SEGMENT_INDEX counted from 0            normalize_transcripts.py:37-46
Segment(i, start, duration) ==
    [SEGMENT_INDEX |-> i, START_S |-> start, END_S |-> start + duration]
\* the segments of a transcript, in the order of their start times; an event
\* without dDurationMs has duration 0            transcript_ytdlp.py:142-148
SegmentLists ==
    UNION {{[i \in 1..n |-> Segment(i - 1, st[i], du[i])] :
                st \in {f \in [1..n -> Seconds] :
                           \A i \in 1..n, j \in 1..n : i < j => f[i] <= f[j]},
                du \in [1..n -> Seconds]} :
           n \in 0..MaxSegments}
\* TRANSCRIPT_CHUNK_SECONDS, TRANSCRIPT_CHUNK_OVERLAP_SECONDS: plain int
\* fields without a validator, so a window of 0 is a configuration the
\* program accepts (negative values, which it accepts too, are left out: they
\* make chunk_start run without bound)                      config.py:91-92
ChunkConfigs ==
    [TRANSCRIPT_CHUNK_SECONDS : Seconds,
     TRANSCRIPT_CHUNK_OVERLAP_SECONDS : Seconds]

MaxOf(S) == CHOOSE x \in S : \A y \in S : y <= x
MinOf(S) == CHOOSE x \in S : \A y \in S : x <= y

ChunkStart(segs, c) ==
    [fn |-> "chunk_transcripts", pc |-> "called", segments |-> segs, cfg |-> c,
     max_end |-> 0, chunk_start |-> 0, chunk_index |-> 0, step |-> 0,
     overlap_s |-> 0, chunks |-> << >>]

ChunkInit ==
    /\ ParseOnly
    /\ tx \in {ChunkStart(segs, c) : segs \in SegmentLists, c \in ChunkConfigs}

\* the head of the function: the empty list, the time range, the step
\*                                                chunk_transcripts.py:21-43
chunk_transcripts ==
    /\ NoProgram
    /\ tx.pc = "called"
    /\ tx' = IF tx.segments = << >>
             THEN [tx EXCEPT !.pc = "returned"]
             ELSE LET window_s == tx.cfg.TRANSCRIPT_CHUNK_SECONDS
                      overlap_s == tx.cfg.TRANSCRIPT_CHUNK_OVERLAP_SECONDS
                      positive == window_s - overlap_s > 0
                  IN  [tx EXCEPT !.pc = "while",
                                 !.chunk_start = tx.segments[1].START_S,
                                 !.max_end = MaxOf({tx.segments[i].END_S :
                                                      i \in 1..Len(tx.segments)}),
                                 !.step = IF positive THEN window_s - overlap_s
                                                      ELSE window_s,
                                 !.overlap_s = IF positive THEN overlap_s ELSE 0]

\* the segments that overlap the window [lo, hi)   chunk_transcripts.py:52-59
RECURSIVE included_indices(_, _, _)
included_indices(segs, lo, hi) ==
    IF segs = << >>
    THEN << >>
    ELSE LET seg == Head(segs)
             rest == included_indices(Tail(segs), lo, hi)
         IN  IF seg.START_S < hi /\ seg.END_S > lo
             THEN <<seg.SEGMENT_INDEX>> \o rest
             ELSE rest

\* "while chunk_start < max_end" found true: the body is entered
\*                                                  chunk_transcripts.py:45
chunk_while ==
    /\ NoProgram
    /\ tx.pc = "while"
    /\ tx.chunk_start < tx.max_end
    /\ tx' = [tx EXCEPT !.pc = "window"]

\* the body of the loop: one window               chunk_transcripts.py:46-76
chunk_window ==
    /\ NoProgram
    /\ tx.pc = "window"
    /\ LET chunk_end == tx.chunk_start + tx.cfg.TRANSCRIPT_CHUNK_SECONDS
           indices == included_indices(tx.segments, tx.chunk_start, chunk_end)
           chunk == [CHUNK_INDEX |-> tx.chunk_index,
                     START_S |-> tx.chunk_start,
                     END_S |-> MinOf({chunk_end, tx.max_end}),
                     SEGMENT_INDICES |-> indices,
                     OVERLAP_S |-> IF tx.chunk_index > 0 THEN tx.overlap_s ELSE 0]
       IN  tx' = IF indices # << >>
                 THEN [tx EXCEPT !.pc = "while",
                                 !.chunks = Append(@, chunk),
                                 !.chunk_index = @ + 1,
                                 !.chunk_start = @ + tx.step]
                 ELSE [tx EXCEPT !.pc = "while",
                                 !.chunk_start = @ + tx.step]

\* return chunks                                     chunk_transcripts.py:78
chunk_return ==
    /\ NoProgram
    /\ tx.pc = "while"
    /\ tx.chunk_start >= tx.max_end
    /\ tx' = [tx EXCEPT !.pc = "returned"]

ChunkNext ==
    \/ chunk_transcripts
    \/ chunk_while
    \/ chunk_window
    \/ chunk_return

SpecChunk == ChunkInit /\ [][ChunkNext]_vars
\* the loop is ordinary sequential code: a step that can be taken is taken
SpecChunkFair == SpecChunk /\ WF_vars(ChunkNext)

(***************************************************************************)
(* normalize_transcripts: the character budget.                            *)
(*                                      parse/normalize_transcripts.py     *)
(***************************************************************************)
\* entry.get("text", ""): strings as sequences of characters
Texts == UNION {[1..n -> {"a", "b"}] : n \in 0..MaxChars}
\* raw_transcript["entries"]
EntryLists == UNION {[1..n -> [text : Texts]] : n \in 0..MaxSegments}
\* cfg.MAX_TRANSCRIPT_CHARS_PER_VIDEO, from 0 to more than any transcript has
Budgets == 0..(MaxSegments * MaxChars + 1)
\* text[:remaining] for 0 < remaining < len(text)
TextPrefix(text, remaining) == SubSeq(text, 1, remaining)

NormalizeStart(entries, max_chars) ==
    [fn |-> "normalize_transcripts", pc |-> "called", entries |-> entries,
     max_chars |-> max_chars, i |-> 0, total_chars |-> 0, segments |-> << >>]

NormalizeInit ==
    /\ ParseOnly
    /\ tx \in {NormalizeStart(e, m) : e \in EntryLists, m \in Budgets}

\* the head of the function          normalize_transcripts.py:17-23
normalize_transcripts ==
    /\ NoProgram
    /\ tx.pc = "called"
    /\ tx' = [tx EXCEPT !.pc = "for", !.i = 0, !.total_chars = 0,
                        !.segments = << >>]

\* an iteration in which the loop goes on after a text was cut
normalize_entry_no_break ==
    /\ NoProgram
    /\ tx.pc = "for"
    /\ tx.i < Len(tx.entries)
    /\ LET text == tx.entries[tx.i + 1].text
           over == tx.total_chars + Len(text) > tx.max_chars
           remaining == tx.max_chars - tx.total_chars
           kept == IF over THEN TextPrefix(text, remaining) ELSE text
       IN  tx' = IF over /\ remaining <= 0
                 THEN [tx EXCEPT !.pc = "returned"]
                 ELSE [tx EXCEPT
                          !.segments = Append(@, [SEGMENT_INDEX |-> tx.i,
                                                  TEXT |-> kept]),
                          !.total_chars = @ + Len(kept),
                          !.i = @ + 1]

\* one iteration of "for i, entry in enumerate(entries)"
\*                                       normalize_transcripts.py:25-50
normalize_entry ==
    /\ NoProgram
    /\ tx.pc = "for"
    /\ tx.i < Len(tx.entries)
    /\ LET text == tx.entries[tx.i + 1].text
           over == tx.total_chars + Len(text) > tx.max_chars
           remaining == tx.max_chars - tx.total_chars
           kept == IF over THEN TextPrefix(text, remaining) ELSE text
       IN  tx' = IF over /\ remaining <= 0
                 THEN [tx EXCEPT !.pc = "returned"]
                 ELSE [tx EXCEPT
                          !.segments = Append(@, [SEGMENT_INDEX |-> tx.i,
                                                  TEXT |-> kept]),
                          !.total_chars = @ + Len(kept),
                          !.i = @ + 1,
                          !.pc = IF tx.total_chars + Len(kept) >= tx.max_chars
                                 THEN "returned" ELSE "for"]

\* the entries are exhausted: return segments   normalize_transcripts.py:52
normalize_return ==
    /\ NoProgram
    /\ tx.pc = "for"
    /\ tx.i >= Len(tx.entries)
    /\ tx' = [tx EXCEPT !.pc = "returned"]

NormalizeNext ==
    \/ normalize_transcripts
    \/ normalize_entry
    \/ normalize_return

SpecNormalize == NormalizeInit /\ [][NormalizeNext]_vars

(***************************************************************************)
(* The manifest snapshot of run_all: what manifest.json holds for a        *)
(* configuration.  Two run directories, each written by a new run and      *)
(* overwritten by its resumes, every invocation with a configuration of    *)
(* its own.                                                 run.py:182-190 *)
(***************************************************************************)
SECRET_KEYS == {"YOUTUBE_API_KEY"}
Mask == "***"
\* the values of the secret that are not empty
SecretValues == {"k1", "k2"}
\* cfg.model_dump(): the secret-bearing field and one that is not
\*                                                      config.py:35, 135
Settings ==
    [YOUTUBE_API_KEY : {None, ""} \cup SecretValues,
     VIDEO_URL : {None, "u"}]
RunDirs == {1, 2}
NoManifest == [kind |-> "absent"]
ManifestStart ==
    [fn |-> "manifest",
     invocations |-> [d \in RunDirs |-> 0],
     cfg |-> [d \in RunDirs |-> [YOUTUBE_API_KEY |-> None, VIDEO_URL |-> None]],
     manifest |-> [d \in RunDirs |-> NoManifest]]
ManifestInit ==
    /\ ParseOnly
    /\ tx = ManifestStart

\* a snapshot that holds the configuration as it is
manifest_data_clear(c) ==
    [k \in DOMAIN c |-> c[k]]

\* {k: ("***" if k in _SECRET_KEYS and v else v) for k, v in ...}
\*                                                          run.py:186-189
manifest_data(c) ==
    [k \in DOMAIN c |-> IF k \in SECRET_KEYS /\ Truthy(c[k]) THEN Mask ELSE c[k]]

\* manifest_path.write_text(json.dumps(manifest_data, indent=2)), by a new
\* run of the directory or by a resume of it                    run.py:190
write_manifest ==
    /\ NoProgram
    /\ tx.fn = "manifest"
    /\ \E d \in RunDirs, c \in Settings :
        /\ tx.invocations[d] < MaxRuns
        /\ tx' = [tx EXCEPT !.invocations[d] = @ + 1,
                            !.cfg[d] = c,
                            !.manifest[d] = [kind |-> "json", data |-> manifest_data(c)]]

ManifestNext ==
    \/ write_manifest

SpecManifest == ManifestInit /\ [][ManifestNext]_vars

(***************************************************************************)
(* The retry loops of the yt-dlp collectors: one call of                   *)
(* collect_comments_ytdlp or collect_transcript_ytdlp, one step per        *)
(* attempt.  `outcomes` lists what each ydl.extract_info call did,         *)
(* `downloads` what each _download_and_parse_json3 call did.               *)
(*             collectors/comments_ytdlp.py, collectors/transcript_ytdlp.py *)
(***************************************************************************)
Collectors == {"collect_comments_ytdlp", "collect_transcript_ytdlp"}
\* the exceptions an attempt can end with
Errors == {"e1", "e2"}
RetryStart(fn, max_retries) ==
    [fn |-> fn, pc |-> "called",
     cfg |-> [MAX_RETRY_SCRAPE |-> max_retries],
     attempt |-> 0, outcomes |-> << >>, downloads |-> << >>, sleeps |-> 0,
     exc |-> ""]
RetryInit ==
    /\ ParseOnly
    /\ tx \in {RetryStart(fn, m) : fn \in Collectors, m \in 0..MaxRetries}

\* the function up to its first loop: for attempt in range(max_retries + 1)
\*                          comments_ytdlp.py:18-45, transcript_ytdlp.py:21-35
collect_ytdlp ==
    /\ NoProgram
    /\ tx.fn \in Collectors
    /\ tx.pc = "called"
    /\ tx' = [tx EXCEPT !.pc = "extract", !.attempt = 0]

\* one iteration of a retry loop: the call done, then break, or sleep and
\* continue while attempt < max_retries, or raise
Iteration(t, o, counted, retry, after) ==
    LET u == [t EXCEPT ![counted] = Append(@, o)]
    IN  IF o = "ok"
        THEN [u EXCEPT !.pc = after]
        ELSE IF retry
        THEN [u EXCEPT !.attempt = @ + 1, !.sleeps = @ + 1]
        ELSE [u EXCEPT !.pc = "raised", !.exc = o]

\* an iteration that also retries when attempt = max_retries
extract_info_one_more_retry ==
    /\ NoProgram
    /\ tx.fn \in Collectors
    /\ tx.pc = "extract"
    /\ \E o \in {"ok"} \cup Errors :
        tx' = Iteration(tx, o, "outcomes", tx.attempt <= tx.cfg.MAX_RETRY_SCRAPE,
                        "extracted")

\* info = ydl.extract_info(video_url, download=False) inside the loop
\*                          comments_ytdlp.py:45-60, transcript_ytdlp.py:35-52
extract_info ==
    /\ NoProgram
    /\ tx.fn \in Collectors
    /\ tx.pc = "extract"
    /\ \E o \in {"ok"} \cup Errors :
        tx' = Iteration(tx, o, "outcomes", tx.attempt < tx.cfg.MAX_RETRY_SCRAPE,
                        "extracted")

\* comments = info.get("comments") or []; return comments
\*                                                   comments_ytdlp.py:62-65
return_comments ==
    /\ NoProgram
    /\ tx.fn = "collect_comments_ytdlp"
    /\ tx.pc = "extracted"
    /\ tx' = [tx EXCEPT !.pc = "returned"]

\* the subtitle track chosen, or the return without entries
\*                                                 transcript_ytdlp.py:54-90
pick_subtitles ==
    /\ NoProgram
    /\ tx.fn = "collect_transcript_ytdlp"
    /\ tx.pc = "extracted"
    /\ \E chosen_url \in {None, "url"} :
        tx' = IF chosen_url = None
              THEN [tx EXCEPT !.pc = "returned"]
              ELSE [tx EXCEPT !.pc = "download", !.attempt = 0]

\* entries = _download_and_parse_json3(chosen_url) inside its loop
\*                                                transcript_ytdlp.py:90-104
download_json3 ==
    /\ NoProgram
    /\ tx.fn = "collect_transcript_ytdlp"
    /\ tx.pc = "download"
    /\ \E o \in {"ok"} \cup Errors :
        tx' = Iteration(tx, o, "downloads", tx.attempt < tx.cfg.MAX_RETRY_SCRAPE,
                        "downloaded")

\* return {"video_id": ..., "entries": entries}    transcript_ytdlp.py:106-111
return_transcript ==
    /\ NoProgram
    /\ tx.fn = "collect_transcript_ytdlp"
    /\ tx.pc = "downloaded"
    /\ tx' = [tx EXCEPT !.pc = "returned"]

RetryNext ==
    \/ collect_ytdlp
    \/ extract_info
    \/ return_comments
    \/ pick_subtitles
    \/ download_json3
    \/ return_transcript

SpecRetry == RetryInit /\ [][RetryNext]_vars
\* the call is not suspended forever: a step that can be taken is taken
SpecRetryFair == SpecRetry /\ WF_vars(RetryNext)

(***************************************************************************)
(* Two writers of one ledger file.  Each calls mark once, for a            *)
(* (unit, stage) pair of its own: it loads the whole file, sets its entry  *)
(* in its own copy, writes the copy to a temp file of its own and renames  *)
(* that onto the ledger.  `tx.concurrent` tells two processes, whose steps *)
(* interleave, from one caller that makes the second call after the first  *)
(* has returned.  The ledger exists and is readable, nothing raises.       *)
(*                                                    checkpoint.py:23-65  *)
(***************************************************************************)
Writers == {1, 2}
StorePairs == StoreUnits \X StoreStages
NoWriter == [pc |-> "idle", data |-> NoUnits, tmp |-> FALSE]
\* the ledger at the start: empty, or holding the entry of an earlier mark
StartLedgers == {NoUnits, SetStatus(NoUnits, "v1", "comments", "FAILED")}
WritersStart(concurrent, k1, k2, units) ==
    [fn |-> "mark", concurrent |-> concurrent,
     key |-> <<k1, k2>>,
     before |-> units,
     file |-> units,
     contents |-> {units},
     w |-> [p \in Writers |-> NoWriter]]
WritersInit ==
    /\ ParseOnly
    /\ tx \in {WritersStart(c, k[1], k[2], u) :
                c \in BOOLEAN,
                k \in {kk \in StorePairs \X StorePairs : kk[1] # kk[2]},
                u \in StartLedgers}

\* ckpt.mark(unit_key, stage) is called; one caller calls again only after
\* its first call has returned
w_mark ==
    /\ NoProgram
    /\ tx.fn = "mark"
    /\ \E p \in Writers :
        /\ tx.w[p].pc = "idle"
        /\ tx.concurrent \/ \A q \in Writers \ {p} : tx.w[q].pc \in {"idle", "returned"}
        /\ tx' = [tx EXCEPT !.w[p].pc = "load"]

\* a load that takes the ledger for empty
w_load_nothing ==
    /\ NoProgram
    /\ tx.fn = "mark"
    /\ \E p \in Writers :
        /\ tx.w[p].pc = "load"
        /\ tx' = [tx EXCEPT !.w[p].pc = "set", !.w[p].data = NoUnits]

\* data = self.load()                                 checkpoint.py:23-26, 61
w_load ==
    /\ NoProgram
    /\ tx.fn = "mark"
    /\ \E p \in Writers :
        /\ tx.w[p].pc = "load"
        /\ tx' = [tx EXCEPT !.w[p].pc = "set", !.w[p].data = tx.file]

\* units.setdefault(unit_key, {}); units[unit_key][stage] = status
\*                                                        checkpoint.py:62-64
w_set ==
    /\ NoProgram
    /\ tx.fn = "mark"
    /\ \E p \in Writers :
        /\ tx.w[p].pc = "set"
        /\ tx' = [tx EXCEPT !.w[p].pc = "mkstemp",
                            !.w[p].data = SetStatus(@, tx.key[p][1], tx.key[p][2], "DONE")]

\* fd, tmp_name = tempfile.mkstemp(...); os.write(fd, content); os.close(fd)
\*                                                        checkpoint.py:42-46
w_mkstemp ==
    /\ NoProgram
    /\ tx.fn = "mark"
    /\ \E p \in Writers :
        /\ tx.w[p].pc = "mkstemp"
        /\ tx' = [tx EXCEPT !.w[p].pc = "replace", !.w[p].tmp = TRUE]

\* tmp_path.replace(self.path): the ledger becomes the writer's copy in one
\* step                                                      checkpoint.py:47
w_replace ==
    /\ NoProgram
    /\ tx.fn = "mark"
    /\ \E p \in Writers :
        /\ tx.w[p].pc = "replace"
        /\ tx' = [tx EXCEPT !.w[p].pc = "returned", !.w[p].tmp = FALSE,
                            !.file = tx.w[p].data,
                            !.contents = @ \cup {tx.w[p].data}]

WritersNext ==
    \/ w_mark
    \/ w_load
    \/ w_set
    \/ w_mkstemp
    \/ w_replace

SpecWriters == WritersInit /\ [][WritersNext]_vars

(***************************************************************************)
(* _enrich_video, embeddings and topics: which vectors the topic functions *)
(* are handed.                run.py:425-462, enrich/embeddings_client.py  *)
(***************************************************************************)
\* batch_size = 100                                 embeddings_client.py:26
batch_size == 100
\* the unit's comments and transcript chunks as read from disk, each item
\* told apart by its asset type and position               run.py:407-411
Items(asset_type, n) == [k \in 1..n |-> <<asset_type, k>>]
\* the vector an embeddings endpoint returns for one text: get_embeddings
\* returns one vector per input text, in input order   llm_client.py:105-128
Vector(item) == [of |-> item]
get_embeddings(batch) == [k \in 1..Len(batch) |-> Vector(batch[k])]
\* a value of type "list[list[float]] | None": Python's None, or a list
NoList == [is_none |-> TRUE, list |-> << >>]
List(v) == [is_none |-> FALSE, list |-> v]
\* s[a : b] for 0 <= a <= b
PySlice(s, a, b) ==
    SubSeq(s, (IF a < Len(s) THEN a ELSE Len(s)) + 1, IF b < Len(s) THEN b ELSE Len(s))
\* EMBEDDINGS_ENABLE, EMBEDDINGS_MAX_RETRIES, EMBEDDINGS_FALLBACK_TO_SAMPLING,
\* TM_CLUSTERING                                      config.py:115-122, 138
EnrichConfigs ==
    [EMBEDDINGS_ENABLE : BOOLEAN,
     EMBEDDINGS_MAX_RETRIES : 0..MaxRetries,
     EMBEDDINGS_FALLBACK_TO_SAMPLING : BOOLEAN,
     TM_CLUSTERING : {"nlp", "llm"}]
EmbeddingStages == {"enrich_embeddings", "enrich_topics"}

\* the call after "if not all_items: return": done holds the stages the ledger
\* shows DONE from an earlier invocation                    run.py:413-426
EnrichStart(c, nc, nk, done) ==
    [fn |-> "_enrich_video", pc |-> "embeddings", cfg |-> c,
     comments |-> Items("comments", nc), chunks |-> Items("transcripts", nk),
     done |-> done, marked |-> << >>, embeddings |-> NoList,
     all_embeddings |-> << >>, i |-> 0, attempt |-> 0, asset |-> 1,
     calls |-> << >>]
EnrichInit ==
    /\ ParseOnly
    /\ tx \in {EnrichStart(c, n[1], n[2], done) :
                  c \in EnrichConfigs, done \in SUBSET EmbeddingStages,
                  n \in {m \in (0..MaxItems) \X (0..MaxItems) : m[1] + m[2] > 0}}

all_items == tx.comments \o tx.chunks

\* if cfg.EMBEDDINGS_ENABLE and not ckpt.is_done(...): compute_embeddings up
\* to its batch loop                 run.py:427-430, embeddings_client.py:19-31
compute_embeddings ==
    /\ NoProgram
    /\ tx.pc = "embeddings"
    /\ tx' = IF tx.cfg.EMBEDDINGS_ENABLE /\ "enrich_embeddings" \notin tx.done
             THEN [tx EXCEPT !.pc = "for_batch"]
             ELSE [tx EXCEPT !.pc = "topics"]

\* for i in range(0, len(texts), batch_size): with for attempt in
\* range(max_retries) below it; return all_embeddings after the last batch
\*                                              embeddings_client.py:33-37, 56
for_batch ==
    /\ NoProgram
    /\ tx.pc = "for_batch"
    /\ tx' = IF tx.i < Len(all_items)
             THEN IF tx.cfg.EMBEDDINGS_MAX_RETRIES > 0
                  THEN [tx EXCEPT !.pc = "attempt", !.attempt = 0]
                  ELSE [tx EXCEPT !.i = @ + batch_size]
             ELSE [tx EXCEPT !.pc = "mark", !.embeddings = List(tx.all_embeddings)]

\* one attempt for the batch texts[i : i + batch_size]: extend and break, or
\* retry, or give up after the last attempt: None with the fallback, the
\* exception without it       embeddings_client.py:38-50, 57-64, run.py:432-438
batch_attempt ==
    /\ NoProgram
    /\ tx.pc = "attempt"
    /\ \E ok \in BOOLEAN :
          tx' = IF ok
                THEN [tx EXCEPT !.pc = "for_batch",
                                !.all_embeddings = @ \o get_embeddings(
                                    PySlice(all_items, tx.i, tx.i + batch_size)),
                                !.i = @ + batch_size]
                ELSE IF tx.attempt # tx.cfg.EMBEDDINGS_MAX_RETRIES - 1
                THEN [tx EXCEPT !.attempt = @ + 1]
                ELSE IF tx.cfg.EMBEDDINGS_FALLBACK_TO_SAMPLING
                THEN [tx EXCEPT !.pc = "mark"]
                ELSE [tx EXCEPT !.pc = "topics",
                                !.marked = Append(@, <<"enrich_embeddings", "FAILED">>)]

\* ckpt.mark(unit_key, "enrich_embeddings") after compute_embeddings returned;
\* when the ledger write raises, the handler marks FAILED and embeddings keeps
\* what was returned                                         run.py:431-438
mark_embeddings ==
    /\ NoProgram
    /\ tx.pc = "mark"
    /\ \E written \in BOOLEAN :
          tx' = [tx EXCEPT !.pc = "topics",
                           !.marked = Append(@, <<"enrich_embeddings",
                                          IF written THEN "DONE" ELSE "FAILED">>)]

\* if not ckpt.is_done(unit_key, "enrich_topics")                 run.py:441
topics_gate ==
    /\ NoProgram
    /\ tx.pc = "topics"
    /\ tx' = IF "enrich_topics" \in tx.done
             THEN [tx EXCEPT !.pc = "returned"]
             ELSE [tx EXCEPT !.pc = "for_asset", !.asset = 1]

\* asset_embeddings = None; if embeddings is not None: offset = ...;
\* embeddings[offset : offset + len(items)]                   run.py:450-453
asset_embeddings(asset_type, items) ==
    IF tx.embeddings.is_none THEN NoList
    ELSE LET offset == IF asset_type = "comments" THEN 0 ELSE Len(tx.comments)
         IN  List(PySlice(tx.embeddings.list, offset, offset + Len(items)))

\* one turn of "for asset_type, items in [("comments", comments),
\* ("transcripts", chunks)]", and ckpt.mark after the second   run.py:444-462
for_asset ==
    /\ NoProgram
    /\ tx.pc = "for_asset"
    /\ LET asset_type == IF tx.asset = 1 THEN "comments" ELSE "transcripts"
           items == IF tx.asset = 1 THEN tx.comments ELSE tx.chunks
           call == IF tx.cfg.TM_CLUSTERING = "llm"
                   THEN [fn |-> "extract_topics_llm", asset_type |-> asset_type,
                         items |-> items, embeddings |-> NoList]
                   ELSE [fn |-> "extract_topics_nlp", asset_type |-> asset_type,
                         items |-> items,
                         embeddings |-> asset_embeddings(asset_type, items)]
           calls == IF items = << >> THEN tx.calls ELSE Append(tx.calls, call)
       IN  tx' = IF tx.asset = 1
                 THEN [tx EXCEPT !.calls = calls, !.asset = 2]
                 ELSE [tx EXCEPT !.calls = calls, !.pc = "returned",
                                 !.marked = Append(@, <<"enrich_topics", "DONE">>)]

EnrichNext ==
    \/ compute_embeddings
    \/ for_batch
    \/ batch_attempt
    \/ mark_embeddings
    \/ topics_gate
    \/ for_asset

SpecEnrichTopics == EnrichInit /\ [][EnrichNext]_vars


(***************************************************************************)
(* Vocabulary of the properties.                                           *)
(***************************************************************************)
CollectionStages == {"transcript", "comments"}
FailureEntries == {pr.failures[i] : i \in 1..Len(pr.failures)}
LastFailure == pr.failures[Len(pr.failures)]
UnitIndex(u) == CHOOSE i \in 1..Len(VideoList) : VideoList[i] = u
Ledger(u, s) == Get(LoadUnits(ckptFile), u, s)
Running == pr.pc # "idle"
Skip == cfg.ON_VIDEO_FAILURE = "skip"
Abort == cfg.ON_VIDEO_FAILURE = "abort"

(***************************************************************************)
(* C1: once the ledger reads DONE for (unit, stage), the operation behind  *)
(* that stage (collector, normalizer, chunker, enrichment function) is     *)
(* never invoked again for the unit, over a new run and its resumes.       *)
(* Stated on the step that makes the call: the ledger is the one the call  *)
(* was made under.                                                         *)
(***************************************************************************)
C1_DoneStageNeverReinvoked ==
    pr.call.op # "" => ~is_done(ckptFile, pr.call.unit, pr.call.stage)

(***************************************************************************)
(* C2: if the ledger reads DONE for (unit, stage), the stage's output for  *)
(* the unit is completely in its output file; in particular                *)
(* transcript_normalize DONE implies the unit's segments are in            *)
(* transcript_segments.jsonl.  Stated for the states a restart finds: the  *)
(* process returned, raised or was killed.                                 *)
(***************************************************************************)
C2_DoneImpliesOutputWritten ==
    ~Running =>
        \A u \in Units :
            is_done(ckptFile, u, "transcript_normalize") => fs.seg[u] >= 1

(***************************************************************************)
(* C3: on a resume that finds transcript_collect DONE and                  *)
(* transcript_normalize not DONE for a unit, the transcript collector is   *)
(* not called for that unit.                                               *)
(***************************************************************************)
C3_ResumeDoesNotRecollect ==
    (pr.resumed /\ pr.call.op = "collect_transcript_ytdlp") =>
        ~(/\ is_done(ckptFile, pr.call.unit, "transcript_collect")
          /\ ~is_done(ckptFile, pr.call.unit, "transcript_normalize"))

(***************************************************************************)
(* C4: what is visible at the canonical ledger path is at every instant a  *)
(* complete ledger (or the bytes an outside writer left there): the store  *)
(* itself never exposes a partially written file.                          *)
(***************************************************************************)
C4_LedgerNeverPartial ==
    ckptFile.kind = "garbage" => ckptFile.bytes \in ForeignBytes

(***************************************************************************)
(* C5: under the skip policy an exception raised by the transcript or the  *)
(* comment sub-pipeline is contained: one failure record is written and    *)
(* one entry appended to the failures, the rest of that sub-pipeline is    *)
(* not executed (control goes from the handler to the next sub-pipeline    *)
(* or to enrichment of the same unit), enrichment of the unit is still     *)
(* attempted, the later units are processed, and run_all returns.  A       *)
(* failure of the ledger write itself is the subject of C8 and is not      *)
(* contained here.                                                         *)
(***************************************************************************)
C5_SkipContainsCollectionFailure ==
    /\ [](Skip =>
            /\ pr.out # "CollectionError"
            /\ pr.pc = "sub_fail_mark" =>
                  /\ LastFailure = [stage |-> pr.sub, video_id |-> video_id,
                                    error |-> pr.exc]
                  /\ fs.fail[unit_key][pr.sub] >= 1
            /\ \A f \in FailureEntries :
                  f.stage \in CollectionStages =>
                      \/ f.video_id \in pr.enriched
                      \/ Running /\ f.video_id = video_id
                                 /\ pr.pc \notin {"unit_done", "unit"}
                      \/ pr.out = "OSError"
            /\ pr.out = "returned" =>
                  /\ pr.processed = Len(VideoList)
                  /\ pr.enriched = Units)
    /\ [][(Skip /\ pr.pc = "sub_fail" /\ pr'.pc # "idle") =>
            /\ pr'.pc = "sub_fail_mark"
            /\ pr'.failures = Append(pr.failures, [stage |-> pr.sub,
                                                   video_id |-> video_id,
                                                   error |-> pr.exc])
            /\ fs' = [fs EXCEPT !.fail[unit_key][pr.sub] = @ + 1]]_vars
    /\ [][(Skip /\ pr.pc = "sub_fail_mark" /\ pr'.pc # "idle") =>
            /\ pr'.pc = IF pr.sub = "transcript" THEN "c_gate" ELSE "e_read"
            /\ pr'.vi = pr.vi
            /\ pr'.failures = pr.failures
            /\ fs' = fs]_vars

C5_SkippedFailureRunCompletes ==
    /\ Skip
    /\ pr.out = "returned"
    /\ pr.processed = Len(VideoList)
    /\ pr.enriched = Units
    /\ \E f \in FailureEntries :
          f.stage = "transcript" /\ f.video_id = VideoList[1]
                                 /\ f.error = "Exception"

(***************************************************************************)
(* C6: under the abort policy the failure record is written, the entry     *)
(* appended and the FAILED mark made before CollectionError leaves         *)
(* run_all, and after the failure nothing further executes: no later       *)
(* stage, no enrichment, no later unit.  Under the skip policy             *)
(* CollectionError never leaves run_all, and under neither policy does a   *)
(* collaborator's own exception.                                           *)
(***************************************************************************)
C6_AbortStopsAfterRecording ==
    /\ pr.out = "CollectionError" =>
          /\ Abort
          /\ pr.failures # << >>
          /\ LastFailure.stage \in CollectionStages
          /\ fs.fail[LastFailure.video_id][LastFailure.stage] >= 1
          /\ Ledger(LastFailure.video_id, LastFailure.stage) = "FAILED"
          /\ pr.processed = UnitIndex(LastFailure.video_id) - 1
          /\ pr.enriched = {VideoList[i] : i \in 1..pr.processed}
    /\ (Abort /\ \E f \in FailureEntries : f.stage \in CollectionStages) =>
          /\ pr.pc \in {"sub_fail_mark", "idle"}
          /\ pr.out \in {"", "CollectionError", "OSError"}
    /\ Skip => pr.out # "CollectionError"
    /\ pr.out # "Exception"

C6_AbortedOnSecondUnit ==
    /\ pr.out = "CollectionError"
    /\ pr.processed = 1
    /\ LastFailure = [stage |-> "comments", video_id |-> VideoList[2],
                      error |-> "Exception"]

(***************************************************************************)
(* C7: an exception in one enrichment stage does not stop the stages after *)
(* it, the later units or the run, under either policy: every enabled      *)
(* stage of a unit that has items is attempted in the invocation unless    *)
(* the ledger reads DONE for it; topics is called without embeddings when  *)
(* the embeddings function raised; an enrichment failure never becomes     *)
(* CollectionError.                                                        *)
(***************************************************************************)
C7_EnrichmentFailureIsolated ==
    /\ (pr.pc = "unit_done" /\ HasItems(unit_key)) =>
          \A s \in EnrichStageSet :
              Enabled(s) => s \in pr.ran \/ Ledger(unit_key, s) = "DONE"
    /\ (/\ pr.call.op = "extract_topics_nlp"
        /\ \E f \in FailureEntries : /\ f.stage = "enrich_embeddings"
                                     /\ f.video_id = pr.call.unit
                                     /\ f.error = "Exception") =>
          ~pr.call.emb
    /\ (pr.pc \in {"e_fail", "e_fail_mark"} /\ pr.exc = "Exception") =>
          stage \in pr.ran
    /\ pr.out = "CollectionError" =>
          LastFailure.stage \in CollectionStages
    /\ pr.out = "returned" => pr.processed = Len(VideoList)

C7_TriplesRunAfterTwoFailures ==
    /\ Abort
    /\ pr.call.op = "extract_triples"
    /\ pr.call.unit = VideoList[1]
    /\ \E f \in FailureEntries : f.stage = "enrich_embeddings"
                                 /\ f.video_id = VideoList[1]
    /\ \E f \in FailureEntries : f.stage = "enrich_sentiment"
                                 /\ f.video_id = VideoList[1]

(***************************************************************************)
(* C8: a failure to write the ledger (save raising inside mark) leaves     *)
(* run_all under both policies: it is never swallowed by the collection    *)
(* handler or by an enrichment stage's handler, so no run continues or     *)
(* returns with such a failure among its recorded failures.                *)
(***************************************************************************)
C8_LedgerWriteFailurePropagates ==
    \A f \in FailureEntries :
        f.error = "OSError" =>
            /\ pr.pc \in {"sub_fail_mark", "e_fail_mark", "idle"}
            /\ pr.out # "returned"

(***************************************************************************)
(* C9: when the ledger file does not parse, load() (also as called by      *)
(* is_done) returns the empty ledger and does not raise; the file          *)
(* checkpoint.corrupt holds exactly the bytes that were found; the         *)
(* canonical file is reinitialised to the empty ledger; and is_done then   *)
(* answers false for every unit and stage.                                 *)
(***************************************************************************)
C9_CorruptLedgerRecovered ==
    (sop.name \in {"load", "is_done"} /\ sbefore.kind = "garbage"
                                       /\ spc = "idle") =>
        /\ sret.kind \in {"return", "killed"}
        /\ sret.kind = "return" =>
              /\ sret.units = NoUnits
              /\ ~sret.done
              /\ corruptFile = sbefore
              /\ ckptFile = LedgerFile(NoUnits)
              /\ \A u \in StoreUnits, s \in StoreStages :
                    ~is_done(ckptFile, u, s)

C9_RecoveredFromForeignBytes ==
    /\ sop.name = "is_done"
    /\ spc = "idle"
    /\ sret.kind = "return"
    /\ sbefore.kind = "garbage"
    /\ sbefore.bytes \in ForeignBytes
    /\ corruptFile = sbefore
    /\ ckptFile = LedgerFile(NoUnits)

(***************************************************************************)
(* C10: an attempted enrichment stage ends in one of two ways.  Success:   *)
(* its output file is appended to only if the stage produced a record, and *)
(* the ledger is marked DONE.  Exception: one failure record is written,   *)
(* one entry {stage, video_id, error} is appended to the failures, and the *)
(* ledger is marked FAILED.  A stage the ledger reads FAILED for is        *)
(* attempted again by the next invocation that reaches it.  A stage cut    *)
(* short by a kill, or by the failure of the FAILED mark itself (C8), has  *)
(* no end in this sense.                                                   *)
(***************************************************************************)
C10_EnrichmentStageOutcome ==
    /\ [](/\ pr.pc = "e_write" => pr.recs
          /\ (pr.pc = "e_mark" /\ pr.recs /\ stage # "enrich_embeddings") =>
                fs.enrich[unit_key][stage] >= 1
          /\ pr.pc = "e_fail_mark" =>
                /\ LastFailure = [stage |-> stage, video_id |-> video_id,
                                  error |-> pr.exc]
                /\ fs.fail[unit_key][stage] >= 1
          /\ Len(pr.failures) > 1 =>
                \A i, j \in 1..Len(pr.failures) :
                    (/\ pr.failures[i].stage = pr.failures[j].stage
                     /\ pr.failures[i].video_id = pr.failures[j].video_id) => i = j
          /\ (pr.pc = "e_gate" /\ pr.ei > 1 /\ EnrichStages[pr.ei - 1] \in pr.ran) =>
                LET s == EnrichStages[pr.ei - 1]
                    failed == \E f \in FailureEntries :
                                 f.stage = s /\ f.video_id = video_id
                IN  \/ Ledger(unit_key, s) = "DONE" /\ ~failed
                    \/ Ledger(unit_key, s) = "FAILED" /\ failed
          /\ (pr.pc = "unit_done" /\ HasItems(unit_key)) =>
                \A s \in EnrichStageSet :
                    (Enabled(s) /\ Ledger(unit_key, s) = "FAILED") => s \in pr.ran)
    /\ [][fs'.enrich # fs.enrich =>
            /\ pr.pc = "e_write"
            /\ fs'.enrich = [fs.enrich EXCEPT ![unit_key][stage] = @ + 1]]_vars
    /\ [][(pr.pc = "e_fail" /\ pr'.pc # "idle") =>
            /\ pr'.pc = "e_fail_mark"
            /\ pr'.failures = Append(pr.failures, [stage |-> stage,
                                                   video_id |-> video_id,
                                                   error |-> pr.exc])
            /\ fs' = [fs EXCEPT !.fail[unit_key][stage] = @ + 1]]_vars
    /\ [][ckptFile' # ckptFile =>
            \A u \in Units, s \in EnrichStageSet :
                Ledger(u, s)' # Ledger(u, s) =>
                    /\ u = unit_key /\ s = stage
                    /\ \/ pr.pc = "e_mark" /\ Ledger(u, s)' = "DONE"
                       \/ pr.pc = "e_fail_mark" /\ Ledger(u, s)' = "FAILED"]_vars

C10_FailedStageRetriedOnResume ==
    /\ pr.resumed
    /\ pr.call.op # ""
    /\ pr.call.stage \in EnrichStageSet
    /\ Ledger(pr.call.unit, pr.call.stage) = "FAILED"

(***************************************************************************)
(* C11: run_all processes the units one after another in list order;       *)
(* within a unit the transcript sub-pipeline comes first, then the         *)
(* comments sub-pipeline, then enrichment; within enrichment the stages    *)
(* are attempted in the order embeddings, topics, sentiment, triples,      *)
(* urls, summary.  Every collaborator call is made for the unit and the    *)
(* part of the unit the loop is at, and the loop position only moves       *)
(* forward, one part at a time.                                            *)
(***************************************************************************)
InUnit ==
    pr.pc \notin {"idle", "preflight", "manifest", "ckpt_init",
                  "ckpt_init_write", "build_list", "unit"}
PartOf(sub) == CASE sub = "transcript" -> 1 [] sub = "comments" -> 2 [] OTHER -> 3
TranscriptStages == {"transcript_collect", "transcript_normalize", "transcript_chunk"}
CommentStages == {"comments_collect_top", "comments_collect_newest", "comments_normalize"}

C11_UnitsAndStagesInOrder ==
    /\ [](/\ InUnit => pr.vi \in 1..Len(VideoList) /\ pr.processed = pr.vi - 1
          /\ pr.call.op # "" =>
                /\ InUnit
                /\ pr.call.unit = VideoList[pr.vi]
                /\ pr.call.stage \in TranscriptStages => pr.sub = "transcript"
                /\ pr.call.stage \in CommentStages => pr.sub = "comments"
                /\ pr.call.stage \in EnrichStageSet =>
                      pr.sub = "" /\ pr.call.stage = EnrichStages[pr.ei]
                /\ pr.call.stage \in
                      TranscriptStages \cup CommentStages \cup EnrichStageSet)
    /\ [][(InUnit /\ InUnit') =>
            /\ pr'.vi = pr.vi
            /\ PartOf(pr'.sub) \in {PartOf(pr.sub), PartOf(pr.sub) + 1}
            /\ (pr.sub = "" /\ pr.pc # "e_read") => pr'.ei >= pr.ei]_vars
    /\ [][(pr'.vi # pr.vi /\ pr'.pc # "idle") =>
            /\ pr.pc \in {"build_list", "unit_done"}
            /\ pr'.vi = pr.vi + 1
            /\ pr'.pc = "unit"]_vars
    /\ [][(pr.pc = "unit" /\ pr'.pc \notin {"idle", "unit"}) =>
            pr'.sub = "transcript" /\ pr'.vi = pr.vi]_vars

C11_LastStageOfSecondUnit ==
    /\ pr.vi = 2
    /\ pr.processed = 1
    /\ pr.call = Call("summarize_content", VideoList[2], "enrich_summary")

(***************************************************************************)
(* C12: on a new run preflight runs exactly once and before the manifest   *)
(* snapshot, the ledger initialisation, discovery and every unit; when its *)
(* verdict is not ok run_all raises PreflightError and the run directory   *)
(* holds the preflight report only: no manifest, no ledger, no discovery   *)
(* manifest, no unit output.  On a resume preflight is never run.          *)
(***************************************************************************)
C12_PreflightGatesNewRun ==
    LET p == sd.p
        d == Dir(NewRunId)
    IN  /\ p.preflights <= 1
        /\ p.resume # NoResume => p.preflights = 0 /\ p.pre = "none"
        /\ (p.resume = NoResume /\ p.pc = "run_preflight") =>
              /\ p.preflights = 0
              /\ p.resolved = 0 /\ p.processed = << >>
              /\ ~d.report /\ ~d.manifest /\ ~d.ledger
              /\ d.disc = << >> /\ d.units = {}
        /\ (p.resume = NoResume /\ p.pc \in {"manifest_snapshot", "init_ledger",
                                             "build_video_list", "resolve",
                                             "write_discovery", "units"}) =>
              p.preflights = 1 /\ p.pre = "ok"
        /\ p.out = "PreflightError" =>
              /\ d.exists /\ d.report
              /\ ~d.manifest /\ ~d.ledger
              /\ d.disc = << >> /\ d.units = {}

C12_PreflightFailed ==
    /\ sd.p.out = "PreflightError"
    /\ Dir(NewRunId).report
    /\ sd.runs = 1

(***************************************************************************)
(* C13: on a resume the search and channel resolvers are never called and  *)
(* the discovery manifest of the original run is not written again.        *)
(***************************************************************************)
C13_ResumeDoesNotRediscover ==
    sd.p.resume # NoResume =>
        sd.p.resolved = 0 /\ "discovery" \notin sd.p.wrote

(***************************************************************************)
(* C14: run_all called with a resume identifier that contains a path       *)
(* separator or is the parent-directory component ".." never gets past the *)
(* identifier check: it raises ValueError, and it has no file-system       *)
(* effect before that.                                                     *)
(***************************************************************************)
Traversal(id) == HasSeparator(id) \/ id = <<".", ".">>

C14_TraversalIdRejected ==
    (sd.p.pc # "idle" /\ Traversal(sd.p.resume)) =>
        /\ sd.p.pc \in {"resume_check", "raise_ValueError"}
        /\ sd.p.effects = 0
        /\ sd.p.wrote = {}
        /\ sd.p.out_dir = NoResume

C14_ParentDirectoryRejected ==
    /\ sd.p.pc = "raise_ValueError"
    /\ sd.p.via = "api"
    /\ sd.p.resume = <<".", ".">>
    /\ IsDir(NewRunId)

(***************************************************************************)
(* C15: a resume goes on to the manifest snapshot, the ledger and the      *)
(* units only if the run directory and its manifest.json existed when it   *)
(* was requested.                                                          *)
(***************************************************************************)
C15_ResumeNeedsDirectoryAndManifest ==
    (sd.p.resume # NoResume /\ sd.p.pc \in {"init_ledger", "build_video_list",
                                            "resolve", "write_discovery",
                                            "units"}) =>
        sd.p.found.dir /\ sd.p.found.manifest

(***************************************************************************)
(* C16: a failure record, once written, is never overwritten: the path     *)
(* failures/<stage>_<video_id>.json is written at most once, a later       *)
(* failure of the same stage for the same unit going to a further file.    *)
(* fs.fail counts the writes made to that one path.                        *)
(***************************************************************************)
C16_FailureRecordWrittenOnce ==
    \A u \in Units : \A s \in FailStages : fs.fail[u][s] <= 1

(***************************************************************************)
(* C17: after any sequence of kills, stage failures and resumes the output *)
(* files hold each key at most once: the segments of a unit, its chunks    *)
(* and its aggregated comments have been appended at most once.            *)
(* fs.seg, fs.chunk and fs.agg count the batches appended for a unit, and  *)
(* every batch of a unit carries the same keys.                            *)
(***************************************************************************)
C17_OutputsHoldEachKeyOnce ==
    \A u \in Units : fs.seg[u] <= 1 /\ fs.chunk[u] <= 1 /\ fs.agg[u] <= 1

(***************************************************************************)
(* C19: the fallback chain of one sort mode that is not DONE.  The primary *)
(* collector is called once; the secondary collector is called once, and   *)
(* only after the primary raised or returned nothing; neither call lets an *)
(* exception out, writes a failure record or touches the ledger.  When     *)
(* neither yields a comment the mode is marked DONE, nothing is marked     *)
(* FAILED, no failure is recorded and the loop goes on with the next mode. *)
(* (A kill, or the ledger write of that DONE mark raising, cuts the chain  *)
(* short: C8.)                                                             *)
(***************************************************************************)
Primary == "collect_comments_playwright_ui"
Secondary == "collect_comments_ytdlp"
ChainSteps == {"c_primary", "c_secondary", "c_mark_empty"}

C19_CommentsFallbackChain ==
    /\ [](/\ pr.pc \in ChainSteps =>
                /\ pr.sub = "comments" /\ pr.exc = ""
                /\ Ledger(unit_key, sm_ckpt_key) # "DONE"
          /\ pr.pc = "c_primary" => pr.call = NoCall
          /\ pr.pc = "c_secondary" =>
                pr.call = Call(Primary, unit_key, sm_ckpt_key) /\ ~pr.rawc
          /\ pr.pc = "c_mark_empty" =>
                pr.call = Call(Secondary, unit_key, sm_ckpt_key) /\ ~pr.rawc
          /\ pr.pc = "c_normalize" =>
                /\ pr.rawc
                /\ pr.call \in {Call(Primary, unit_key, sm_ckpt_key),
                                Call(Secondary, unit_key, sm_ckpt_key)})
    /\ [][(pr.pc \in {"c_primary", "c_secondary"} /\ pr'.pc # "idle") =>
            /\ pr'.call.op = IF pr.pc = "c_primary" THEN Primary ELSE Secondary
            /\ pr'.pc = IF pr'.rawc THEN "c_normalize"
                        ELSE IF pr.pc = "c_primary" THEN "c_secondary"
                                                    ELSE "c_mark_empty"
            /\ pr'.exc = "" /\ pr'.mi = pr.mi
            /\ pr'.failures = pr.failures
            /\ fs' = fs /\ ckptFile' = ckptFile]_vars
    /\ [][(pr.pc = "c_mark_empty" /\ pr'.pc \notin {"idle", "sub_fail"}) =>
            /\ is_done(ckptFile', unit_key, sm_ckpt_key)
            /\ \A s \in CommentStages \cup {"comments"} :
                  Get(LoadUnits(ckptFile'), unit_key, s) = "FAILED" =>
                      Ledger(unit_key, s) = "FAILED"
            /\ pr'.pc = "c_mode" /\ pr'.mi = pr.mi + 1
            /\ pr'.failures = pr.failures
            /\ fs' = fs]_vars
    /\ [][(pr'.pc \in ChainSteps /\ pr'.pc # pr.pc) =>
            pr.pc = CASE pr'.pc = "c_primary" -> "c_mode"
                      [] pr'.pc = "c_secondary" -> "c_primary"
                      [] pr'.pc = "c_mark_empty" -> "c_secondary"]_vars

\* both collectors came back empty-handed for the first mode, the mode was
\* marked DONE and the loop is at the second mode
C19_EmptyModeMarkedDone ==
    /\ pr.pc = "c_mode"
    /\ pr.mi = 2
    /\ Ledger(unit_key, "comments_collect_top") = "DONE"
    /\ fs.mode[unit_key]["top"] = 0
    /\ pr.failures = << >>
    /\ ~pr.resumed

(***************************************************************************)
(* C20: in search mode the list of units is the concatenation of the       *)
(* per-term results in term order, reduced to the first occurrence of each *)
(* VIDEO_ID and cut to its first MAX_TOTAL_VIDEOS entries; the discovery   *)
(* manifest written holds exactly this list, so it names no VIDEO_ID twice *)
(* and holds at most MAX_TOTAL_VIDEOS entries.  (Checked for the maxima    *)
(* from 1 up; a list that comes out empty is returned without a manifest   *)
(* being written.)                                                         *)
(***************************************************************************)
TermIndex(t) == CHOOSE i \in 1..Len(SEARCH_TERMS) : SEARCH_TERMS[i] = t
\* the positions of a list that hold the first occurrence of their VIDEO_ID
FirstOccurrences(l) ==
    {i \in 1..Len(l) : \A j \in 1..(i - 1) : l[j].VIDEO_ID # l[i].VIDEO_ID}
\* the k-th smallest member of a set of positions
Kth(S, k) == CHOOSE i \in S : Cardinality({j \in S : j <= i}) = k
NoVideoTwice(l) ==
    \A i, j \in 1..Len(l) : l[i].VIDEO_ID = l[j].VIDEO_ID => i = j

RECURSIVE Gathered(_, _)
Gathered(raw, k) ==
    IF k = 0 THEN << >> ELSE Gathered(raw, k - 1) \o raw[COLLECT_SORT_MODES[k]]
Positions(l, c) == {k \in 1..Len(l) : l[k] = c}
ModeIndex(m) == CHOOSE k \in 1..Len(COLLECT_SORT_MODES) : COLLECT_SORT_MODES[k] = m

C18_CommentDedupLaw ==
    cm # NotInUse =>
        LET all == Gathered(cm.raw, Len(COLLECT_SORT_MODES))
            out == cm.comments_jsonl
        IN  /\ cm.pc = "dedup" => cm.all_normalized = all
            /\ cm.pc = "written" =>
                  /\ \A i \in 1..Len(all) :
                        LET c == all[i] IN
                        IF Truthy(c.COMMENT_ID)
                        THEN LET held == {k \in 1..Len(out) :
                                            out[k].COMMENT_ID = c.COMMENT_ID}
                             IN  /\ Cardinality(held) = 1
                                 /\ \A k \in held :
                                       /\ \E j \in 1..i :
                                             /\ out[k] = all[j]
                                             /\ \A h \in 1..(j - 1) :
                                                   all[h].COMMENT_ID # c.COMMENT_ID
                                       /\ \A m \in SortModeSet :
                                             (\E x \in 1..Len(cm.raw[m]) :
                                                 cm.raw[m][x].COMMENT_ID = c.COMMENT_ID)
                                             => ModeIndex(out[k].SORT_MODE) <= ModeIndex(m)
                        ELSE Cardinality(Positions(out, c)) = 1
                  /\ \A k \in 1..Len(out) : Positions(all, out[k]) # {}

\* both modes produced the identifier "a" and each of them a comment without
\* identifier (one empty, one None); the merged file is written
C18_RepeatedAndMissingIds ==
    /\ cm # NotInUse
    /\ cm.pc = "written"
    /\ Len(cm.raw["top"]) = 2 /\ Len(cm.raw["newest"]) = 2
    /\ cm.raw["top"][1].COMMENT_ID = "a" /\ cm.raw["top"][2].COMMENT_ID = ""
    /\ cm.raw["newest"][1].COMMENT_ID = "None" /\ cm.raw["newest"][2].COMMENT_ID = "a"
    /\ Len(cm.comments_jsonl) = 3

(***************************************************************************)
(* C21: the failure policy of discovery.  Under skip a term or channel     *)
(* whose resolver raised contributes no entry and every term or channel    *)
(* after it is still resolved; under abort no raise is passed over: it     *)
(* ends run_all with CollectionError, during discovery, before any unit is *)
(* processed and without a file being written by that step.                *)
(***************************************************************************)
Sources == IF sd.cfg.mode = "search" THEN SEARCH_TERMS ELSE YT_SUBSCRIPTIONS

C21_DiscoveryFailurePolicy ==
    /\ [](LET p == sd.p
          IN  /\ p.raised # {} => sd.cfg.ON_VIDEO_FAILURE = "skip"
              /\ p.out = "CollectionError" => sd.cfg.ON_VIDEO_FAILURE = "abort"
              /\ p.pc \in {"resolve", "write_discovery"} =>
                    /\ p.processed = << >>
                    /\ p.resolved = IF p.pc = "resolve" THEN p.ti - 1
                                                        ELSE Len(Sources)
                    /\ p.raised \subseteq {Sources[i] : i \in 1..(p.ti - 1)}
                    /\ \A i \in 1..Len(p.acc) : p.acc[i].FROM \notin p.raised)
    /\ [][(sd.p.pc # "idle" /\ sd'.p.out = "CollectionError") =>
            /\ sd.p.pc = "resolve"
            /\ sd.p.processed = << >>
            /\ sd'.dirs = sd.dirs]_vars

\* under skip the resolver of the first term raised, the second term was
\* resolved all the same and its videos make the list
C21_FirstTermSkipped ==
    /\ sd.cfg.mode = "search"
    /\ sd.p.pc = "write_discovery"
    /\ sd.p.raised = {SEARCH_TERMS[1]}
    /\ sd.p.resolved = Len(SEARCH_TERMS)
    /\ sd.p.video_list # << >>

(***************************************************************************)
(* C22: chunking covers the transcript.  For a non-empty list of segments  *)
(* and an overlap smaller than the window, the SEGMENT_INDEX of every      *)
(* segment is among the SEGMENT_INDICES of at least one returned chunk;    *)
(* the first chunk has OVERLAP_S = 0 and every later chunk the configured  *)
(* overlap.                                                                *)
(***************************************************************************)
C22_ChunksCoverEverySegment ==
    (/\ tx # NotInUse
     /\ tx.pc = "returned"
     /\ tx.segments # << >>
     /\ tx.cfg.TRANSCRIPT_CHUNK_OVERLAP_SECONDS < tx.cfg.TRANSCRIPT_CHUNK_SECONDS) =>
        /\ \A i \in 1..Len(tx.segments) :
              \E k \in 1..Len(tx.chunks) :
                  \E x \in 1..Len(tx.chunks[k].SEGMENT_INDICES) :
                      tx.chunks[k].SEGMENT_INDICES[x] = tx.segments[i].SEGMENT_INDEX
        /\ \A k \in 1..Len(tx.chunks) :
              tx.chunks[k].OVERLAP_S =
                  IF k = 1 THEN 0 ELSE tx.cfg.TRANSCRIPT_CHUNK_OVERLAP_SECONDS

(***************************************************************************)
(* C23: the character budget of a transcript.  For any raw entries and any *)
(* budget from 0 up, the TEXT lengths of the returned segments add up to   *)
(* at most the budget; the segments are a prefix of the entries: segment k *)
(* comes from entry k, carries SEGMENT_INDEX k and a text that is the      *)
(* entry's text or a beginning of it; only the last returned segment can   *)
(* have a text that was cut.  (Also: the list stops short of the entries   *)
(* only when the budget is used up.)                                       *)
(***************************************************************************)
RECURSIVE SumOfLengths(_)
SumOfLengths(segs) ==
    IF segs = << >> THEN 0 ELSE Len(Head(segs).TEXT) + SumOfLengths(Tail(segs))
IsBeginningOf(s, text) ==
    Len(s) <= Len(text) /\ \A i \in 1..Len(s) : s[i] = text[i]

C23_TranscriptCharacterBudget ==
    (tx # NotInUse /\ tx.pc \in {"for", "returned"}) =>
        LET n == Len(tx.segments)
        IN  /\ SumOfLengths(tx.segments) <= tx.max_chars
            /\ n <= Len(tx.entries)
            /\ \A k \in 1..n :
                  /\ tx.segments[k].SEGMENT_INDEX = k - 1
                  /\ IsBeginningOf(tx.segments[k].TEXT, tx.entries[k].text)
                  /\ k < n => tx.segments[k].TEXT = tx.entries[k].text
            /\ (tx.pc = "returned" /\ n < Len(tx.entries)) =>
                  SumOfLengths(tx.segments) + Len(tx.entries[n + 1].text)
                      >= tx.max_chars

\* the budget ran out inside the second entry: its text was cut
C23_SecondEntryTruncated ==
    /\ tx # NotInUse
    /\ tx.fn = "normalize_transcripts"
    /\ tx.pc = "returned"
    /\ Len(tx.segments) = 2
    /\ tx.segments[1].TEXT # << >>
    /\ tx.segments[2].TEXT # << >>
    /\ tx.segments[2].TEXT # tx.entries[2].text

(***************************************************************************)
(* C24: is_done(u, s) returns true if and only if the ledger's value for   *)
(* (u, s) is exactly DONE: it returns false when the unit or the stage is  *)
(* absent and when the value is FAILED.  Hence after mark(u, s, FAILED)    *)
(* is_done(u, s) is false and after a later mark(u, s, DONE) it is true.   *)
(* (The statuses written by the program are DONE and FAILED.)              *)
(***************************************************************************)
C24_IsDoneIffExactlyDone ==
    /\ (sop.name = "is_done" /\ spc = "idle" /\ sret.kind = "return") =>
          (sret.done <=>
              /\ IsLedger(sbefore)
              /\ sop.unit \in DOMAIN sbefore.units
              /\ sop.stage \in DOMAIN sbefore.units[sop.unit]
              /\ sbefore.units[sop.unit][sop.stage] = "DONE")
    /\ (sop.name = "mark" /\ spc = "idle" /\ sret.kind = "return") =>
          (is_done(ckptFile, sop.unit, sop.stage) <=> sop.status = "DONE")

\* is_done answered false for a stage the ledger holds as FAILED
C24_FailedIsNotDone ==
    /\ sop.name = "is_done"
    /\ spc = "idle"
    /\ sret.kind = "return"
    /\ ~sret.done
    /\ IsLedger(sbefore)
    /\ Get(sbefore.units, sop.unit, sop.stage) = "FAILED"

(***************************************************************************)
(* C25: mark(u, s, status) changes exactly one entry of the ledger.  After *)
(* a completed mark the file is a ledger in which (u, s) has the status    *)
(* given, so a fresh load() returns it; every other entry (u', s') has the *)
(* value it had when mark was called, none removed and none added; the     *)
(* sub-map of u exists, created if it was absent.                          *)
(***************************************************************************)
C25_MarkChangesOneEntry ==
    (sop.name = "mark" /\ spc = "idle" /\ sret.kind = "return") =>
        LET before == LoadUnits(sbefore)
        IN  /\ IsLedger(ckptFile)
            /\ Get(ckptFile.units, sop.unit, sop.stage) = sop.status
            /\ DOMAIN ckptFile.units = DOMAIN before \cup {sop.unit}
            /\ \A u \in DOMAIN ckptFile.units :
                  /\ DOMAIN ckptFile.units[u] =
                        IF u = sop.unit
                        THEN (IF u \in DOMAIN before THEN DOMAIN before[u] ELSE {})
                                 \cup {sop.stage}
                        ELSE DOMAIN before[u]
                  /\ \A s \in DOMAIN ckptFile.units[u] :
                        (u # sop.unit \/ s # sop.stage) =>
                            ckptFile.units[u][s] = before[u][s]

\* a mark that changed the status of one stage of a unit while another stage
\* of that unit and a stage of the other unit were in the ledger
C25_MarkAmongOtherEntries ==
    /\ sop.name = "mark"
    /\ spc = "idle"
    /\ sret.kind = "return"
    /\ IsLedger(sbefore)
    /\ DOMAIN sbefore.units = StoreUnits
    /\ \A u \in StoreUnits : DOMAIN sbefore.units[u] = StoreStages
    /\ sbefore.units[sop.unit][sop.stage] # sop.status

(***************************************************************************)
(* C26: after any sequence of mark() and save() calls, whether they went   *)
(* through or stopped part-way, the directory of the ledger holds no       *)
(* temporary file: every temp file a save created has been renamed over    *)
(* the ledger or removed.                                                  *)
(***************************************************************************)
C26_NoTempFileLeftBehind ==
    spc = "idle" => ~Exists(tmpFile) /\ strayTmp = 0

(***************************************************************************)
(* C27: init_if_missing() never destroys state and is idempotent.  Called  *)
(* when the ledger file is absent it leaves the empty ledger; called when  *)
(* the file exists, as at the start of every resume, it leaves the file as *)
(* it found it, so every status of the earlier run is still there.         *)
(***************************************************************************)
C27_InitKeepsExistingLedger ==
    /\ (sop.name = "init_if_missing" /\ spc = "idle" /\ sret.kind = "return") =>
          ckptFile = IF Exists(sbefore) THEN sbefore ELSE LedgerFile(NoUnits)
    /\ (sop.name = "init_if_missing" /\ spc = "init_write") => ~Exists(sbefore)

\* init_if_missing returned on a ledger that holds a DONE mark
C27_InitOnLedgerWithDoneMark ==
    /\ sop.name = "init_if_missing"
    /\ spc = "idle"
    /\ sret.kind = "return"
    /\ IsLedger(sbefore)
    /\ \E u \in StoreUnits, s \in StoreStages : is_done(ckptFile, u, s)

(***************************************************************************)
(* C28: skipping leaves the files untouched.  A unit's pipeline starts at  *)
(* the transcript gate; while the ledger reads DONE for the unit's gate    *)
(* stages (transcript_chunk, comments_normalize, every enabled enrichment  *)
(* stage) each of its steps is a gate or a read that passes on to the next *)
(* gate, calls no collaborator, records no failure and changes neither an  *)
(* output or failure file nor the ledger; so a unit that starts with all   *)
(* its gates DONE ends with every file as it was.                          *)
(***************************************************************************)
SkipPath == {"t_gate", "c_gate", "e_read", "e_gate", "unit_done"}
AllGatesDone(u) ==
    /\ is_done(ckptFile, u, "transcript_chunk")
    /\ is_done(ckptFile, u, "comments_normalize")
    /\ \A s \in EnrichStageSet : Enabled(s) => is_done(ckptFile, u, s)

C28_SkippedUnitWritesNothing ==
    /\ [][(pr.pc = "unit" /\ pr'.pc \notin {"unit", "idle"}) =>
            pr'.pc = "t_gate"]_vars
    /\ [][(pr.pc \in SkipPath /\ AllGatesDone(unit_key)) =>
            /\ fs' = fs
            /\ ckptFile' = ckptFile
            /\ pr'.pc \in SkipPath \cup {"unit", "idle"}
            /\ pr'.call = NoCall
            /\ pr'.pc # "idle" => pr'.failures = pr.failures]_vars

\* a resumed run is through with a unit that has items to enrich and whose
\* gates were all DONE: no enrichment stage was attempted
C28_UnitSkippedOnResume ==
    /\ pr.resumed
    /\ pr.pc = "unit_done"
    /\ AllGatesDone(unit_key)
    /\ HasItems(unit_key)
    /\ pr.ran = {}
    /\ fs.seg[unit_key] = 1 /\ fs.chunk[unit_key] = 1 /\ fs.agg[unit_key] = 1

(***************************************************************************)
(* C29: completion is readable from the ledger.  When run_all has returned *)
(* with an empty failure list and every unit has yielded a transcript and  *)
(* comments (its segments and its aggregate comments are on disk), the     *)
(* ledger reads DONE, for every unit, for transcript_collect,              *)
(* transcript_normalize, transcript_chunk, comments_collect_<m> of every   *)
(* sort mode, comments_normalize and every enabled enrichment stage, and   *)
(* no entry of any unit reads FAILED.                                      *)
(***************************************************************************)
ExpectedStages ==
    TranscriptStages \cup CommentStages \cup {s \in EnrichStageSet : Enabled(s)}
\* the unit's transcript was chunked and its comments aggregated, and both
\* had content
EveryUnitYielded ==
    \A u \in Units :
        /\ fs.seg[u] > 0 /\ Ledger(u, "transcript_chunk") = "DONE"
        /\ fs.agg[u] > 0 /\ Ledger(u, "comments_normalize") = "DONE"
NoFailedEntry(u) ==
    LET units == LoadUnits(ckptFile)
    IN  u \in DOMAIN units => \A s \in DOMAIN units[u] : units[u][s] # "FAILED"

C29_CompletionReadableFromLedger ==
    (pr.pc = "idle" /\ pr.out = "returned" /\ pr.failures = << >>
        /\ EveryUnitYielded)
    => \A u \in Units :
        /\ \A s \in ExpectedStages : Ledger(u, s) = "DONE"
        /\ NoFailedEntry(u)

(***************************************************************************)
(* C30: expected empty results are not failures.  Where the transcripts    *)
(* are disabled by configuration, where the transcript collected for a     *)
(* unit has no entries, and where no collector returned a comment for a    *)
(* sort mode, the step taken writes no failure record, marks nothing       *)
(* FAILED, adds nothing to RunResult.failures, raises nothing and goes on  *)
(* with the next step: the comments of the unit in the first two cases,    *)
(* the next sort mode in the third.  (A kill, or the ledger write of the   *)
(* DONE mark raising OSError, is not the empty result's doing: C8.)        *)
(***************************************************************************)
TranscriptsOff == pr.pc = "t_gate" /\ ~cfg.TRANSCRIPTS_ENABLE
EmptyTranscript == pr.pc = "t_mark_collect" /\ ~pr.raw
EmptyMode == pr.pc = "c_mark_empty"
FailedMarks ==
    {e \in Units \X (FailStages \cup TranscriptStages \cup CommentStages) :
        Ledger(e[1], e[2]) = "FAILED"}

C30_EmptyResultsAreNotFailures ==
    /\ [](/\ EmptyTranscript =>
                pr.call = Call("collect_transcript_ytdlp", unit_key, "transcript_collect")
          /\ EmptyMode => ~pr.rawc)
    /\ [][((TranscriptsOff \/ EmptyTranscript \/ EmptyMode)
            /\ pr'.pc # "idle"
            /\ ~(pr'.pc = "sub_fail" /\ pr'.exc = "OSError")) =>
            /\ pr'.failures = pr.failures
            /\ fs' = fs
            /\ FailedMarks' = FailedMarks
            /\ pr'.exc = ""
            /\ pr'.vi = pr.vi
            /\ IF EmptyMode
               THEN pr'.pc = "c_mode" /\ pr'.mi = pr.mi + 1
               ELSE pr'.pc = "c_gate" /\ pr'.sub = "comments"]_vars

\* with the transcripts disabled neither collector returned a comment for
\* the first sort mode of a unit: no transcript stage was touched, the mode
\* is DONE, nothing has failed and the loop is at the second mode
C30_NoTranscriptsAndEmptyMode ==
    /\ ~cfg.TRANSCRIPTS_ENABLE
    /\ pr.pc = "c_mode"
    /\ pr.mi = 2
    /\ Ledger(unit_key, "transcript_collect") # "DONE"
    /\ Ledger(unit_key, "comments_collect_top") = "DONE"
    /\ fs.mode[unit_key]["top"] = 0
    /\ pr.failures = << >>
    /\ FailedMarks = {}

(***************************************************************************)
(* C31: a unit without normalized comments and without transcript chunks   *)
(* on disk is not enriched.  No enrichment stage is entered for it, so as  *)
(* long as a unit has no items no enrichment function has been called for  *)
(* it in this invocation, no enrichment stage of it is in the ledger (DONE *)
(* or FAILED), no enrichment file and no enrichment failure record of it   *)
(* has been written; _enrich_video returns to the unit loop with no        *)
(* exception and no failure added for an enrichment stage.                 *)
(***************************************************************************)
EnrichPositions == {"e_gate", "e_call", "e_write", "e_mark", "e_fail", "e_fail_mark"}
NoEnrichmentTrace(u) ==
    \A s \in EnrichStageSet :
        /\ Ledger(u, s) \notin {"DONE", "FAILED"}
        /\ fs.enrich[u][s] = 0
        /\ fs.fail[u][s] = 0
        /\ \A f \in FailureEntries : ~(f.video_id = u /\ f.stage = s)

C31_NothingToEnrich ==
    /\ pr.pc \in EnrichPositions => HasItems(unit_key)
    /\ \A u \in Units : ~HasItems(u) => NoEnrichmentTrace(u)
    /\ (pr.pc = "unit_done" /\ ~HasItems(unit_key)) =>
            pr.ran = {} /\ pr.call = NoCall /\ pr.exc = ""

\* both sub-pipelines of a unit failed under the skip policy: _enrich_video
\* was entered for the unit, found nothing and returned
C31_ReturnedWithoutItems ==
    /\ pr.pc = "unit_done"
    /\ unit_key \in pr.enriched
    /\ ~HasItems(unit_key)
    /\ Len(pr.failures) = 2

(***************************************************************************)
(* C32: secret masking.  Every manifest.json written, by a new run or by a *)
(* resume, holds the mask in place of a non-empty YOUTUBE_API_KEY and      *)
(* every other value as configured; none holds a clear secret value; and   *)
(* two manifests written for configurations that differ only in the        *)
(* non-empty value of the secret are identical.                            *)
(***************************************************************************)
Written(d) == tx.manifest[d].kind = "json"
DifferOnlyInSecret(c1, c2) ==
    /\ \A k \in DOMAIN c1 \ SECRET_KEYS : c1[k] = c2[k]
    /\ \A k \in SECRET_KEYS : c1[k] \in SecretValues /\ c2[k] \in SecretValues

C32_SecretMaskedInManifest ==
    /\ \A d \in RunDirs : Written(d) =>
        /\ \A k \in SECRET_KEYS :
            /\ tx.cfg[d][k] \in SecretValues => tx.manifest[d].data[k] = Mask
            /\ tx.manifest[d].data[k] \notin SecretValues
        /\ \A k \in DOMAIN tx.cfg[d] \ SECRET_KEYS :
            tx.manifest[d].data[k] = tx.cfg[d][k]
    /\ \A d1 \in RunDirs, d2 \in RunDirs :
        (Written(d1) /\ Written(d2) /\ DifferOnlyInSecret(tx.cfg[d1], tx.cfg[d2]))
            => tx.manifest[d1] = tx.manifest[d2]

\* a new run of one directory and a resume of the other, with two different
\* keys and otherwise the same configuration
C32_TwoKeysOneManifest ==
    /\ tx.invocations[1] = 1 /\ tx.invocations[2] = 2
    /\ tx.cfg[1].YOUTUBE_API_KEY = "k1"
    /\ tx.cfg[2].YOUTUBE_API_KEY = "k2"
    /\ tx.cfg[1].VIDEO_URL = "u" /\ tx.cfg[2].VIDEO_URL = "u"
    /\ tx.manifest[1] = tx.manifest[2]

(***************************************************************************)
(* C33: process exit.  Whenever the run-all command ends (the process not  *)
(* having been killed) with an exit status other than 0, preflight failed  *)
(* or the resume target, the run directory or its manifest, was not found; *)
(* a run_all that returns a result ends the command with status 0.         *)
(***************************************************************************)
CommandEnds ==
    /\ sd'.p.pc = "idle"
    /\ sd'.p.out # "killed"
    /\ \/ sd.p.pc # "idle" /\ sd.p.via = "cli"
       \/ sd.p.pc = "idle" /\ sd'.runs > sd.runs

C33_NonZeroExitOnlyForPreflightOrResumeTarget ==
    [][CommandEnds =>
        /\ exit_status(sd'.p.out) # 0 =>
              \/ sd'.p.out = "PreflightError" /\ sd.p.pc = "run_preflight"
              \/ sd'.p.out = "BadParameter"
                    /\ \E id \in RunIds : ~IsDir(id) \/ ~HasManifest(id)
        /\ sd'.p.out = "returned" => exit_status(sd'.p.out) = 0]_vars

(***************************************************************************)
(* C34: collector retry.  One call of collect_comments_ytdlp or            *)
(* collect_transcript_ytdlp calls the extraction at most                   *)
(* MAX_RETRY_SCRAPE + 1 times; a successful extraction is the last one     *)
(* made; the call raises out of the extraction loop only after             *)
(* MAX_RETRY_SCRAPE + 1 failed extractions, and then with the error of the *)
(* last one; and every call ends, by returning or by raising.              *)
(***************************************************************************)
Extractions == Len(tx.outcomes)
CallEnded == tx.pc \in {"returned", "raised"}

C34_CollectorRetry ==
    /\ [](/\ Extractions <= tx.cfg.MAX_RETRY_SCRAPE + 1
          /\ \A i \in 1..Extractions :
                tx.outcomes[i] = "ok" => i = Extractions /\ tx.pc # "extract"
          /\ tx.pc \in {"extracted", "download", "downloaded", "returned"} =>
                Extractions >= 1 /\ tx.outcomes[Extractions] = "ok"
          /\ (tx.pc = "raised" /\ tx.downloads = << >>) =>
                /\ Extractions = tx.cfg.MAX_RETRY_SCRAPE + 1
                /\ \A i \in 1..Extractions : tx.outcomes[i] \in Errors
                /\ tx.exc = tx.outcomes[Extractions]
          /\ tx.sleeps <= 2 * tx.cfg.MAX_RETRY_SCRAPE)
    /\ <>CallEnded

\* the extraction failed twice and succeeded at the third and last attempt
\* allowed, and the call returned
C34_SucceededAtLastAttempt ==
    /\ tx.pc = "returned"
    /\ tx.cfg.MAX_RETRY_SCRAPE = 2
    /\ tx.outcomes = <<"e1", "e2", "ok">>

(***************************************************************************)
(* C35: the ledger's read-modify-write under two writers that mark         *)
(* different (unit, stage) pairs.  The ledger file always holds a whole    *)
(* copy, the one it started with or one a writer built; a single caller    *)
(* making one call after the other never loses a mark, nor an entry that   *)
(* was there before; with two concurrent processes the mark of at least    *)
(* one survives, and there is an interleaving after which the other's is   *)
(* gone (the state C35_LostUpdate).                                        *)
(***************************************************************************)
Holds(p) == Get(tx.file, tx.key[p][1], tx.key[p][2]) = "DONE"
BothReturned == \A p \in Writers : tx.w[p].pc = "returned"
\* the entries of `old` are in `new`, but for the one at key k
KeptBut(old, new, ks) ==
    \A u \in DOMAIN old : \A s \in DOMAIN old[u] :
        <<u, s>> \notin ks => Get(new, u, s) = old[u][s]

C35_ConcurrentMarksLoseUpdates ==
    /\ tx.file \in tx.contents
    /\ KeptBut(tx.before, tx.file, {tx.key[1], tx.key[2]})
    /\ ~tx.concurrent => \A p \in Writers : tx.w[p].pc = "returned" => Holds(p)
    /\ BothReturned => \E p \in Writers : Holds(p)

\* both processes have returned from mark and the ledger holds the mark of
\* the first alone: the second loaded before the first renamed, the first
\* renamed last
C35_LostUpdate ==
    /\ tx.concurrent
    /\ BothReturned
    /\ Holds(1) /\ ~Holds(2)
    /\ tx.before = NoUnits

(***************************************************************************)
(* C36: chunk_transcripts terminates for every segment list and every      *)
(* integer window and overlap; when the overlap is at least the window it  *)
(* steps by the window and every chunk records OVERLAP_S = 0; the chunks   *)
(* carry the consecutive CHUNK_INDEX values 0, 1, 2, ...                   *)
(***************************************************************************)
InLoop == tx.pc \in {"while", "window", "returned"} /\ tx.segments # << >>
FallsBack ==
    tx.cfg.TRANSCRIPT_CHUNK_OVERLAP_SECONDS >= tx.cfg.TRANSCRIPT_CHUNK_SECONDS
C36_StepAndIndices ==
    /\ (InLoop /\ FallsBack) =>
          /\ tx.step = tx.cfg.TRANSCRIPT_CHUNK_SECONDS
          /\ \A k \in 1..Len(tx.chunks) : tx.chunks[k].OVERLAP_S = 0
    /\ \A k \in 1..Len(tx.chunks) : tx.chunks[k].CHUNK_INDEX = k - 1
C36_ChunkingTerminates ==
    /\ []C36_StepAndIndices
    /\ <>(tx.pc = "returned")

(***************************************************************************)
(* C37: embedding alignment.  When embeddings were computed in the current *)
(* invocation for comments + chunks, the topic function is handed for the  *)
(* comments the vectors [0, |comments|) and for the chunks the vectors     *)
(* [|comments|, |comments| + |chunks|): vector i of an asset type is the   *)
(* vector of item i of that type.  When embeddings are unavailable         *)
(* (disabled, failed, or DONE earlier) the topics stage still runs and is  *)
(* handed none.  (Read for the topic function that takes embeddings,       *)
(* extract_topics_nlp.)                                                    *)
(***************************************************************************)
Computed == ~tx.embeddings.is_none
VectorsOf(items) == [k \in 1..Len(items) |-> Vector(items[k])]
TopicsRan ==
    /\ tx.pc = "returned"
    /\ "enrich_topics" \notin tx.done
CallsFor(asset_type) ==
    {k \in 1..Len(tx.calls) : tx.calls[k].asset_type = asset_type}
C37_EmbeddingAlignment ==
    /\ \A k \in 1..Len(tx.calls) :
          tx.calls[k].fn = "extract_topics_nlp" =>
              tx.calls[k].embeddings =
                  IF Computed THEN List(VectorsOf(tx.calls[k].items)) ELSE NoList
    /\ TopicsRan =>
          /\ tx.comments # << >> => CallsFor("comments") # {}
          /\ tx.chunks # << >> => CallsFor("transcripts") # {}

(***************************************************************************)
(* C38: DONE is stable.  Over any sequence of run_all invocations on one   *)
(* run directory in which the ledger file stays parsable, no entry         *)
(* (unit, stage) goes from DONE to FAILED or to absent; an entry only goes *)
(* absent -> DONE, absent -> FAILED, FAILED -> FAILED, FAILED -> DONE or   *)
(* DONE -> DONE; every value in the ledger is DONE or FAILED.              *)
(***************************************************************************)
LedgerStages == FailStages \cup TranscriptStages \cup CommentStages
Parsable(file) == file.kind # "garbage"
OnlyDoneOrFailed(units) ==
    \A u \in DOMAIN units :
        /\ u \in Units
        /\ \A s \in DOMAIN units[u] :
              s \in LedgerStages /\ units[u][s] \in {"DONE", "FAILED"}
EntryStep(old, new) ==
    \/ old = None /\ new \in {None, "DONE", "FAILED"}
    \/ old = "FAILED" /\ new \in {"FAILED", "DONE"}
    \/ old = "DONE" /\ new = "DONE"
C38_DoneIsStable ==
    /\ [](OnlyDoneOrFailed(LoadUnits(ckptFile)))
    /\ [][(Parsable(ckptFile) /\ Parsable(ckptFile')) =>
            \A u \in Units : \A s \in LedgerStages :
                EntryStep(Ledger(u, s), Ledger(u, s)')]_vars
\* a stage that failed in an earlier invocation is DONE after the resume, next
\* to a stage that was DONE before and still is
C38_FailedThenDone ==
    /\ pr.resumed
    /\ \E u \in Units : \E s \in EnrichStageSet :
          /\ fs.fail[u][s] > 0
          /\ Ledger(u, s) = "DONE"
          /\ Ledger(u, "comments_normalize") = "DONE"

(***************************************************************************)
(* C39: no stale failure marks.  If a collection sub-pipeline or an        *)
(* enrichment stage of a unit failed in one invocation and a later resume  *)
(* re-executes it successfully, then no FAILED mark written for the failed *)
(* attempt is left in the ledger: it has been replaced by DONE.            *)
(***************************************************************************)
\* the ledger key whose DONE mark ends a successful execution: the last stage
\* of a sub-pipeline, the stage itself for enrichment     run.py:298, 394, 462
CompletionKey(x) ==
    CASE x = "transcript" -> "transcript_chunk"
      [] x = "comments" -> "comments_normalize"
      [] OTHER -> x
CompletedNow(u, x) ==
    /\ Ledger(u, CompletionKey(x)) # "DONE"
    /\ Ledger(u, CompletionKey(x))' = "DONE"
C39_NoStaleFailureMarks ==
    [][\A u \in Units : \A x \in FailStages :
          (pr.resumed /\ Ledger(u, x) = "FAILED" /\ CompletedNow(u, x)) =>
              Ledger(u, x)' # "FAILED"]_vars

(***************************************************************************)
(* C40: each unit is processed at most once per invocation.  In every      *)
(* input mode the list _build_video_list returns holds each VIDEO_ID at    *)
(* most once, so within one run_all no unit is processed twice and         *)
(* videos_processed never exceeds the number of distinct units.            *)
(***************************************************************************)
VideoIdsOf(l) == {l[i].VIDEO_ID : i \in 1..Len(l)}
C40_EachUnitOncePerInvocation ==
    LET p == sd.p
    IN  p.pc = "units" =>
           /\ NoVideoTwice(p.video_list)
           /\ \A i, j \in 1..Len(p.processed) :
                 p.processed[i] = p.processed[j] => i = j
           /\ Len(p.processed) <= Cardinality(VideoIdsOf(p.video_list))

=============================================================================
